---- MODULE Spec2Model ----
(***************************************************************************)
(* Model of the dynamodb_expression crate: the builder types, the          *)
(* ExpressionNode tree, the escape-substitution renderer, the AliasList    *)
(* and the top-level Builder / Expression.                                 *)
(*                                                                         *)
(* Strings are sequences of one-character strings, so that the renderer    *)
(* can walk a template character by character as the code does.            *)
(* A Result<T, E> is a record [ok |-> TRUE, val |-> t] or                  *)
(* [ok |-> FALSE, err |-> e].                                              *)
(***************************************************************************)
EXTENDS Integers, Sequences, FiniteSets, TLC

VARIABLES
    expressions,   \* Builder.expressions : ExpressionType -> boxed TreeBuilder
    pc,            \* "building" while the Builder is alive, "built" after build(self)
    result,        \* what build() returned: NoResult, Ok(Expression) or Err(error)
    last_call,     \* the last Builder method called and its argument
    alias_list,    \* an AliasList driven directly through alias_path / alias_value
    alias_log,     \* the calls made on alias_list and the token each returned
    kc_left,       \* left argument of the last key_and call
    kc_right,      \* right argument of the last key_and call
    kc,            \* the KeyConditionBuilder assembled so far
    kc_depth,      \* number of key_and calls that produced kc
    builder,       \* a builder made through the public constructor functions
    tree,          \* what build_operand() / build_tree() returned for builder
    rendered,      \* what rendering that tree against a fresh AliasList returned
    calls,         \* the set/remove/add/delete calls that assembled builder
    random_state   \* the RandomState of the HashMaps: fixes the order of keys()

vars == <<expressions, pc, result, last_call, alias_list, alias_log,
          kc_left, kc_right, kc, kc_depth, builder, tree, rendered,
          calls, random_state>>

builder_vars == <<expressions, pc, result, last_call>>
alias_vars == <<alias_list, alias_log>>
key_vars == <<kc_left, kc_right, kc, kc_depth>>
tree_vars == <<builder, tree, rendered, calls>>
hash_vars == <<random_state>>

(***************************************************************************)
(* Results and errors                                                      *)
(***************************************************************************)
Ok(v) == [ok |-> TRUE, val |-> v]

Err(e) == [ok |-> FALSE, err |-> e]

UnsetParameterError(function_name, parameter_type) ==
    [kind |-> "UnsetParameterError", function_name |-> function_name,
     parameter_type |-> parameter_type]

InvalidParameterError(function_name, parameter_type) ==
    [kind |-> "InvalidParameterError", function_name |-> function_name,
     parameter_type |-> parameter_type]

\* the `?` operator: the value of an Ok result goes on into the rest of the
\* function, a failed result is returned at once
Try(r, F(_)) == IF r.ok THEN F(r.val) ELSE r

\* anyhow's bail!("...") with a plain message; arg is the formatted argument
\* of the message, if it has one
Bail(msg, arg) == [kind |-> "anyhow", msg |-> msg, arg |-> arg]

(***************************************************************************)
(* Decimal formatting: format!("{}", n) for usize and i64::to_string       *)
(***************************************************************************)
Digit(d) ==
    CASE d = 0 -> "0" [] d = 1 -> "1" [] d = 2 -> "2" [] d = 3 -> "3"
      [] d = 4 -> "4" [] d = 5 -> "5" [] d = 6 -> "6" [] d = 7 -> "7"
      [] d = 8 -> "8" [] d = 9 -> "9"

RECURSIVE usize_to_string(_)
usize_to_string(n) ==
    IF n < 10 THEN <<Digit(n)>>
    ELSE usize_to_string(n \div 10) \o <<Digit(n % 10)>>

i64_to_string(n) ==
    IF n < 0 THEN <<"-">> \o usize_to_string(0 - n) ELSE usize_to_string(n)

(***************************************************************************)
(* Rust strings: len() and slicing count bytes, chars().nth() counts chars *)
(***************************************************************************)
\* the characters of the model that take two bytes in UTF-8 (U+00E9 is e-acute)
WideChars == {"U+00E9"}

\* str::len(): the length in bytes
str_len(s) == Len(s) + Cardinality({i \in DOMAIN s : s[i] \in WideChars})

\* a panic (unwrap on None, slice off a char boundary, arithmetic overflow);
\* it leaves every enclosing call at once, as a failed result does in the model
Panic(msg) == [ok |-> FALSE, err |-> [kind |-> "panic", msg |-> msg]]

\* s.chars().nth(i): Ok(char) or the None that unwrap() panics on
chars_nth(s, i) ==
    IF i < Len(s) THEN Ok(s[i + 1])
    ELSE Panic("called Option::unwrap() on a None value")

\* the number of chars before byte offset b, or -1 when b is no char boundary
char_boundary(s, b) ==
    LET ks == {k \in 0..Len(s) : str_len(SubSeq(s, 1, k)) = b}
    IN IF ks = {} THEN 0 - 1 ELSE CHOOSE k \in ks : TRUE

\* str::split(sep) as a sequence of words (empty words included)
RECURSIVE split(_, _)
split(s, sep) ==
    LET hits == {i \in 1..Len(s) : s[i] = sep}
    IN IF hits = {} THEN <<s>>
       ELSE LET i == CHOOSE i \in hits : \A j \in hits : i <= j
            IN <<SubSeq(s, 1, i - 1)>> \o split(SubSeq(s, i + 1, Len(s)), sep)

\* join that leaves the separator out
RECURSIVE join_without_separator(_, _)
join_without_separator(words, sep) ==
    IF Len(words) = 0 THEN <<>>
    ELSE words[1] \o join_without_separator(Tail(words), sep)

\* [String]::join(sep)
RECURSIVE join(_, _)
join(words, sep) ==
    IF Len(words) = 0 THEN <<>>
    ELSE IF Len(words) = 1 THEN words[1]
    ELSE words[1] \o sep \o join(Tail(words), sep)

\* str::repeat(n)
RECURSIVE repeat(_, _)
repeat(s, n) == IF n <= 0 THEN <<>> ELSE s \o repeat(s, n - 1)

(***************************************************************************)
(* AttributeValue and the value builders (operand.rs)                      *)
(***************************************************************************)
AttrNull == [t |-> "Null", v |-> TRUE]

\* attribute_value without the is_empty() tests: an empty collection stays an
\* empty Ss, L or M
RECURSIVE attribute_value_keeps_empty(_)
attribute_value_keeps_empty(vb) ==
    CASE vb.ty = "bool" -> [t |-> "Bool", v |-> vb.value]
      [] vb.ty = "i64" -> [t |-> "N", v |-> i64_to_string(vb.value)]
      [] vb.ty = "String" -> [t |-> "S", v |-> vb.value]
      [] vb.ty = "VecString" -> [t |-> "Ss", v |-> vb.value]
      [] vb.ty = "AttributeValue" -> vb.value
      [] vb.ty = "VecValue" ->
            [t |-> "L",
             v |-> [i \in 1..Len(vb.value) |->
                      attribute_value_keeps_empty(vb.value[i])]]
      [] vb.ty = "MapValue" ->
            [t |-> "M",
             v |-> [k \in DOMAIN vb.value |->
                      attribute_value_keeps_empty(vb.value[k])]]

RECURSIVE attribute_value(_)
attribute_value(vb) ==
    CASE vb.ty = "bool" -> [t |-> "Bool", v |-> vb.value]
      [] vb.ty = "i64" -> [t |-> "N", v |-> i64_to_string(vb.value)]
      [] vb.ty = "String" -> [t |-> "S", v |-> vb.value]
      [] vb.ty = "VecString" ->
            IF Len(vb.value) = 0 THEN AttrNull
            ELSE [t |-> "Ss", v |-> vb.value]
      [] vb.ty = "AttributeValue" -> vb.value
      [] vb.ty = "VecValue" ->
            IF Len(vb.value) = 0 THEN AttrNull
            ELSE [t |-> "L",
                  v |-> [i \in 1..Len(vb.value) |-> attribute_value(vb.value[i])]]
      [] vb.ty = "MapValue" ->
            IF DOMAIN vb.value = {} THEN AttrNull
            ELSE [t |-> "M",
                  v |-> [k \in DOMAIN vb.value |-> attribute_value(vb.value[k])]]

\* value(v): Box<ValueBuilder<T>>; ty names T
value(ty, v) == [ob |-> "Value", ty |-> ty, value |-> v]

name(nm) == [ob |-> "Name", name |-> nm]

key(k) == [ob |-> "Key", key |-> k]

size(name_builder) == [ob |-> "Size", name_builder |-> name_builder]

(***************************************************************************)
(* ExpressionNode (expression.rs)                                          *)
(***************************************************************************)
ExpressionNode(names, values, children, fmt_expression) ==
    [names |-> names, values |-> values, children |-> children,
     fmt_expression |-> fmt_expression]

ExpressionNode_default == ExpressionNode(<<>>, <<>>, <<>>, <<>>)

from_names(names, fmt_expression) ==
    ExpressionNode(names, <<>>, <<>>, fmt_expression)

from_values(values, fmt_expression) ==
    ExpressionNode(<<>>, values, <<>>, fmt_expression)

from_children(children) == ExpressionNode(<<>>, <<>>, children, <<>>)

from_children_expression(children, fmt_expression) ==
    ExpressionNode(<<>>, <<>>, children, fmt_expression)

(***************************************************************************)
(* AliasList (expression.rs)                                               *)
(***************************************************************************)
AliasList_default == [names |-> <<>>, values |-> <<>>]

\* alias_value with '$' in place of ':' in the token
alias_value_dollar(al, dav) ==
    LET values == Append(al.values, dav)
    IN [al |-> [al EXCEPT !.values = values],
        alias |-> <<"$">> \o usize_to_string(Len(values) - 1)]

\* alias_value(&mut self, dav) -> String: the list after the call and the token
alias_value(al, dav) ==
    LET values == Append(al.values, dav)
    IN [al |-> [al EXCEPT !.values = values],
        alias |-> <<":">> \o usize_to_string(Len(values) - 1)]

\* alias_path without the search for an equal name: every call appends
alias_path_no_dedup(al, nm) ==
    LET nms == Append(al.names, nm)
    IN [al |-> [al EXCEPT !.names = nms],
        alias |-> <<"#">> \o usize_to_string(Len(nms) - 1)]

\* alias_path(&mut self, nm) -> String
alias_path(al, nm) ==
    LET hits == {idx \in 1..Len(al.names) : al.names[idx] = nm}
    IN IF hits # {}
       THEN [al |-> al,
             alias |-> <<"#">> \o
                 usize_to_string((CHOOSE idx \in hits : \A j \in hits : idx <= j) - 1)]
       ELSE LET names == Append(al.names, nm)
            IN [al |-> [al EXCEPT !.names = names],
                alias |-> <<"#">> \o usize_to_string(Len(names) - 1)]

(***************************************************************************)
(* The renderer: ExpressionNode::build_expression_string                   *)
(* A render returns [ok, str | err, al]: al is the alias list as the call  *)
(* left it (it is a &mut in the code, also when the call fails).           *)
(***************************************************************************)
RenderOk(str, al) == [ok |-> TRUE, str |-> str, al |-> al]

RenderErr(e, al) == [ok |-> FALSE, err |-> e, al |-> al]

substitute_path(node, index, al) ==
    IF index >= Len(node.names)
    THEN RenderErr(Bail("substitutePath error: exprNode []names out of range", ""), al)
    ELSE LET r == alias_path(al, node.names[index + 1])
         IN RenderOk(r.alias, r.al)

\* substitute_value with the message of substitute_path
substitute_value_as_path(node, index, al) ==
    IF index >= Len(node.values)
    THEN RenderErr(Bail("substitutePath error: exprNode []names out of range", ""), al)
    ELSE LET r == alias_value(al, node.values[index + 1])
         IN RenderOk(r.alias, r.al)

substitute_value(node, index, al) ==
    IF index >= Len(node.values)
    THEN RenderErr(Bail("substituteValue error: exprNode []values out of range", ""), al)
    ELSE LET r == alias_value(al, node.values[index + 1])
         IN RenderOk(r.alias, r.al)

\* a render as the Result its caller applies `?` to; on success the caller
\* goes on with the string and with the alias list the render wrote to
render_result(r) ==
    IF r.ok THEN Ok([str |-> r.str, al |-> r.al]) ELSE Err(r.err)

\* build_expression_string without the test for a '$' at the end
is_last_char_unchecked(formatted_expression, idx) == FALSE

\* idx == formatted_expression.len() - 1
is_last_char(formatted_expression, idx) ==
    idx = str_len(formatted_expression) - 1

\* one counter for the three kinds of marker
advance_index_shared(index, rune) ==
    <<index[1] + 1, index[2] + 1, index[3] + 1>>

\* index.0 += 1, index.1 += 1 or index.2 += 1 in the arm of the rune
advance_index(index, rune) ==
    CASE rune = "n" -> <<index[1] + 1, index[2], index[3]>>
      [] rune = "v" -> <<index[1], index[2] + 1, index[3]>>
      [] OTHER -> <<index[1], index[2], index[3] + 1>>

RECURSIVE build_expression_string(_, _)
RECURSIVE scan_expression(_, _, _, _, _)

substitute_child(node, index, al) ==
    IF index >= Len(node.children)
    THEN RenderErr(Bail("substituteChild error: exprNode []children out of range", ""), al)
    ELSE build_expression_string(node.children[index + 1], al)

\* the while loop of build_expression_string: formatted_expression, idx,
\* the (names, values, children) index triple and the alias list
scan_expression(node, formatted_expression, idx, index, al) ==
    IF ~(idx < str_len(formatted_expression))
    THEN RenderOk(formatted_expression, al)
    ELSE
      LET ch == chars_nth(formatted_expression, idx)
      IN IF ~ch.ok THEN RenderErr(ch.err, al)
         ELSE IF ch.val # "$"
         THEN scan_expression(node, formatted_expression, idx + 1, index, al)
         ELSE IF is_last_char(formatted_expression, idx)
         THEN RenderErr(Bail("buildexprNode error: invalid escape character", ""), al)
         ELSE
           LET rune == chars_nth(formatted_expression, idx + 1)
           IN IF ~rune.ok THEN RenderErr(rune.err, al)
              ELSE
                LET sub == CASE rune.val = "n" -> substitute_path(node, index[1], al)
                             [] rune.val = "v" -> substitute_value(node, index[2], al)
                             [] rune.val = "c" -> substitute_child(node, index[3], al)
                             [] OTHER ->
                                  RenderErr(Bail("buildexprNode error: invalid escape rune ",
                                                 rune.val), al)
                    index2 == advance_index(index, rune.val)
                    lo == char_boundary(formatted_expression, idx)
                    hi == char_boundary(formatted_expression, idx + 2)
                IN IF ~sub.ok THEN sub
                   ELSE IF lo < 0 \/ hi < 0
                   THEN RenderErr(Panic("byte index is not a char boundary").err, sub.al)
                   ELSE scan_expression(
                          node,
                          SubSeq(formatted_expression, 1, lo) \o sub.str
                              \o SubSeq(formatted_expression, hi + 1,
                                        Len(formatted_expression)),
                          idx + str_len(sub.str), index2, sub.al)

build_expression_string(node, al) ==
    scan_expression(node, node.fmt_expression, 0, <<0, 0, 0>>, al)

(***************************************************************************)
(* Operand builders: build_operand (operand.rs, lib.rs)                    *)
(***************************************************************************)
Operand_new(expression_node) == [expression_node |-> expression_node]

\* impl_value_builder!: OperandBuilder for ValueBuilder<T>
value_build_operand(vb) ==
    Ok(Operand_new(from_values(<<attribute_value(vb)>>, <<"$", "v">>)))

NameUnset == Err(UnsetParameterError("BuildOperand", "NameBuilder"))

\* the body of the `for mut word in name_split` loop of NameBuilder::build_operand
RECURSIVE name_words(_, _, _, _)
name_words(words, i, node, fmt_names) ==
    IF i > Len(words)
    THEN Ok(Operand_new([node EXCEPT !.fmt_expression = join(fmt_names, <<".">>)]))
    ELSE
      LET word == words[i]
      IN IF Len(word) = 0 THEN NameUnset
         ELSE
           LET last == chars_nth(word, str_len(word) - 1)
           IN IF ~last.ok THEN last
              ELSE
                LET opens == IF last.val = "]"
                             THEN {j \in 1..Len(word) : word[j] = "["}
                             ELSE {}
                    j == IF opens = {} THEN Len(word) + 1
                         ELSE CHOOSE j \in opens : \A k \in opens : j <= k
                    substr == SubSeq(word, j, Len(word))
                    word2 == SubSeq(word, 1, j - 1)
                IN IF Len(word2) = 0 THEN NameUnset
                   ELSE name_words(words, i + 1,
                                   [node EXCEPT !.names = Append(node.names, word2)],
                                   Append(fmt_names, <<"$", "n">> \o substr))

name_build_operand(nb) ==
    IF Len(nb.name) = 0 THEN NameUnset
    ELSE name_words(split(nb.name, "."), 1, ExpressionNode_default, <<>>)

size_build_operand(sb) ==
    Try(name_build_operand(sb.name_builder), LAMBDA operand :
      Ok(Operand_new(
           [operand.expression_node EXCEPT
              !.fmt_expression = <<"s", "i", "z", "e", " ", "(">> \o @ \o <<")">>])))

\* build_operand of a key that parses the key as a name is parsed
key_build_operand_parsed(kb) ==
    IF Len(kb.key) = 0
    THEN Err(UnsetParameterError("BuildOperand", "KeyBuilder"))
    ELSE name_build_operand(name(kb.key))

key_build_operand(kb) ==
    IF Len(kb.key) = 0
    THEN Err(UnsetParameterError("BuildOperand", "KeyBuilder"))
    ELSE Ok(Operand_new(from_names(<<kb.key>>, <<"$", "n">>)))

\* plus / minus / list_append / if_not_exists
set_value(mode, left_operand, right_operand) ==
    [ob |-> "SetValue", left_operand |-> left_operand,
     right_operand |-> right_operand, mode |-> mode]

\* the template chosen by `match self.mode` in SetValueBuilder::build_operand
set_value_fmt(mode) ==
    CASE mode = "Plus" -> <<"$", "c", " ", "+", " ", "$", "c">>
      [] mode = "Minus" -> <<"$", "c", " ", "-", " ", "$", "c">>
      [] mode = "ListAppend" ->
           <<"l", "i", "s", "t", "_", "a", "p", "p", "e", "n", "d", "(",
             "$", "c", ",", " ", "$", "c", ")">>
      [] mode = "IfNotExists" ->
           <<"i", "f", "_", "n", "o", "t", "_", "e", "x", "i", "s", "t", "s", "(",
             "$", "c", ",", " ", "$", "c", ")">>

RECURSIVE build_operand(_)
set_value_build_operand(svb) ==
    IF svb.mode = "Unset"
    THEN Err(UnsetParameterError("BuildOperand", "SetValueBuilder"))
    ELSE
      Try(build_operand(svb.left_operand), LAMBDA left :
        Try(build_operand(svb.right_operand), LAMBDA right :
          Ok(Operand_new(from_children_expression(
               <<left.expression_node, right.expression_node>>,
               set_value_fmt(svb.mode))))))

\* dyn OperandBuilder::build_operand, dispatched on the builder's type
build_operand(ob) ==
    CASE ob.ob = "Value" -> value_build_operand(ob)
      [] ob.ob = "Name" -> name_build_operand(ob)
      [] ob.ob = "Size" -> size_build_operand(ob)
      [] ob.ob = "Key" -> key_build_operand(ob)
      [] ob.ob = "SetValue" -> set_value_build_operand(ob)

(***************************************************************************)
(* ConditionBuilder (condition.rs)                                         *)
(***************************************************************************)
ConditionBuilder(operand_list, condition_list, mode) ==
    [operand_list |-> operand_list, condition_list |-> condition_list,
     mode |-> mode]

ConditionBuilder_default == ConditionBuilder(<<>>, <<>>, "Unset")

\* equal, not_equal, less_than, less_than_equal, greater_than, greater_than_equal
compare(mode, left, right) == ConditionBuilder(<<left, right>>, <<>>, mode)

\* and that takes the conditions of a left And as its own
and_flattened(left, right) ==
    IF left.mode = "And"
    THEN ConditionBuilder(<<>>, left.condition_list \o <<right>>, "And")
    ELSE ConditionBuilder(<<>>, <<left, right>>, "And")

and(left, right) == ConditionBuilder(<<>>, <<left, right>>, "And")

or(left, right) == ConditionBuilder(<<>>, <<left, right>>, "Or")

not(condition_builder) == ConditionBuilder(<<>>, <<condition_builder>>, "Not")

between(op, lower, upper) == ConditionBuilder(<<op, lower, upper>>, <<>>, "Between")

in(left, right) == ConditionBuilder(<<left>> \o right, <<>>, "In")

attribute_exists(nm) == ConditionBuilder(<<nm>>, <<>>, "AttrExists")

attribute_not_exists(nm) == ConditionBuilder(<<nm>>, <<>>, "AttrNotExists")

\* DynamoDbAttributeType::as_str
DynamoDbAttributeType_as_str(attr_type) ==
    CASE attr_type = "String" -> <<"S">>
      [] attr_type = "StringSet" -> <<"S", "S">>
      [] attr_type = "Number" -> <<"N">>
      [] attr_type = "NumberSet" -> <<"N", "S">>
      [] attr_type = "Binary" -> <<"B">>
      [] attr_type = "BinarySet" -> <<"B", "S">>
      [] attr_type = "Boolean" -> <<"B", "O", "O", "L">>
      [] attr_type = "Null" -> <<"N", "U", "L", "L">>
      [] attr_type = "List" -> <<"L">>
      [] attr_type = "Map" -> <<"M">>

attribute_type(nm, attr_type) ==
    ConditionBuilder(<<nm, value("String", DynamoDbAttributeType_as_str(attr_type))>>,
                     <<>>, "AttrType")

begins_with(nm, prefix) ==
    ConditionBuilder(<<nm, value("String", prefix)>>, <<>>, "BeginsWith")

contains(nm, substr) ==
    ConditionBuilder(<<nm, value("String", substr)>>, <<>>, "Contains")

CompareModes ==
    {"Equal", "NotEqual", "LessThan", "LessThanEqual", "GreaterThan",
     "GreaterThanEqual"}

compare_build_condition(mode, node) ==
    CASE mode = "Equal" -> Ok([node EXCEPT !.fmt_expression = <<"$", "c", " ", "=", " ", "$", "c">>])
      [] mode = "NotEqual" -> Ok([node EXCEPT !.fmt_expression = <<"$", "c", " ", "<", ">", " ", "$", "c">>])
      [] mode = "LessThan" -> Ok([node EXCEPT !.fmt_expression = <<"$", "c", " ", "<", " ", "$", "c">>])
      [] mode = "LessThanEqual" -> Ok([node EXCEPT !.fmt_expression = <<"$", "c", " ", "<", "=", " ", "$", "c">>])
      [] mode = "GreaterThan" -> Ok([node EXCEPT !.fmt_expression = <<"$", "c", " ", ">", " ", "$", "c">>])
      [] mode = "GreaterThanEqual" -> Ok([node EXCEPT !.fmt_expression = <<"$", "c", " ", ">", "=", " ", "$", "c">>])
      [] OTHER -> Err(Bail("build compare condition error: unsupported mode: ", mode))

compound_build_condition(condition_builder, node) ==
    IF condition_builder.mode \notin {"And", "Or"}
    THEN Err(Bail("build compound condition error: unsupported mode: ",
                  condition_builder.mode))
    ELSE
      LET mode == IF condition_builder.mode = "And" THEN <<" ", "A", "N", "D", " ">> ELSE <<" ", "O", "R", " ">>
          n == Len(condition_builder.condition_list) - 1
      IN IF n < 0 THEN Panic("attempt to subtract with overflow")
         ELSE Ok([node EXCEPT !.fmt_expression =
                    <<"(", "$", "c", ")">> \o repeat(mode \o <<"(", "$", "c", ")">>, n)])

not_build_condition(node) == [node EXCEPT !.fmt_expression = <<"N", "O", "T", " ", "(", "$", "c", ")">>]

between_build_condition(node) ==
    [node EXCEPT !.fmt_expression = <<"$", "c", " ", "B", "E", "T", "W", "E", "E", "N", " ", "$", "c", " ", "A", "N", "D", " ", "$", "c">>]

in_build_condition(condition_builder, node) ==
    LET n == Len(condition_builder.operand_list) - 2
    IN IF n < 0 THEN Panic("attempt to subtract with overflow")
       ELSE Ok([node EXCEPT !.fmt_expression =
                  <<"$", "c", " ", "I", "N", " ", "(", "$", "c">> \o repeat(<<",", " ", "$", "c">>, n) \o <<")">>])

attr_exists_build_condition(node) ==
    [node EXCEPT !.fmt_expression = <<"a", "t", "t", "r", "i", "b", "u", "t", "e", "_", "e", "x", "i", "s", "t", "s", " ", "(", "$", "c", ")">>]

attr_not_exists_build_condition(node) ==
    [node EXCEPT !.fmt_expression = <<"a", "t", "t", "r", "i", "b", "u", "t", "e", "_", "n", "o", "t", "_", "e", "x", "i", "s", "t", "s", " ", "(", "$", "c", ")">>]

attr_type_build_condition(node) ==
    [node EXCEPT !.fmt_expression = <<"a", "t", "t", "r", "i", "b", "u", "t", "e", "_", "t", "y", "p", "e", " ", "(", "$", "c", ",", " ", "$", "c", ")">>]

begins_with_build_condition(node) ==
    [node EXCEPT !.fmt_expression = <<"b", "e", "g", "i", "n", "s", "_", "w", "i", "t", "h", " ", "(", "$", "c", ",", " ", "$", "c", ")">>]

contains_build_condition(node) ==
    [node EXCEPT !.fmt_expression = <<"c", "o", "n", "t", "a", "i", "n", "s", " ", "(", "$", "c", ",", " ", "$", "c", ")">>]

RECURSIVE condition_build_tree(_)
RECURSIVE condition_list_nodes(_, _, _)

\* first loop of ConditionBuilder::build_child_nodes, over condition_list
condition_list_nodes(condition_list, i, child_nodes) ==
    IF i > Len(condition_list) THEN Ok(child_nodes)
    ELSE Try(condition_build_tree(condition_list[i]), LAMBDA node :
           condition_list_nodes(condition_list, i + 1, Append(child_nodes, node)))

\* second loop of ConditionBuilder::build_child_nodes, over operand_list
RECURSIVE condition_operand_nodes(_, _, _)
condition_operand_nodes(operand_list, i, child_nodes) ==
    IF i > Len(operand_list) THEN Ok(child_nodes)
    ELSE Try(build_operand(operand_list[i]), LAMBDA operand :
           condition_operand_nodes(operand_list, i + 1,
                                   Append(child_nodes, operand.expression_node)))

\* build_child_nodes with the loop over operand_list first
condition_build_child_nodes_operands_first(cb) ==
    Try(condition_operand_nodes(cb.operand_list, 1, <<>>), LAMBDA child_nodes :
      condition_list_nodes(cb.condition_list, 1, child_nodes))

condition_build_child_nodes(cb) ==
    Try(condition_list_nodes(cb.condition_list, 1, <<>>), LAMBDA child_nodes :
      condition_operand_nodes(cb.operand_list, 1, child_nodes))

condition_build_tree(cb) ==
    Try(condition_build_child_nodes(cb), LAMBDA child_nodes :
         LET ret == from_children(child_nodes)
         IN CASE cb.mode \in CompareModes -> compare_build_condition(cb.mode, ret)
              [] cb.mode \in {"And", "Or"} -> compound_build_condition(cb, ret)
              [] cb.mode = "Not" -> Ok(not_build_condition(ret))
              [] cb.mode = "Between" -> Ok(between_build_condition(ret))
              [] cb.mode = "In" -> in_build_condition(cb, ret)
              [] cb.mode = "AttrExists" -> Ok(attr_exists_build_condition(ret))
              [] cb.mode = "AttrNotExists" -> Ok(attr_not_exists_build_condition(ret))
              [] cb.mode = "AttrType" -> Ok(attr_type_build_condition(ret))
              [] cb.mode = "BeginsWith" -> Ok(begins_with_build_condition(ret))
              [] cb.mode = "Contains" -> Ok(contains_build_condition(ret))
              [] cb.mode = "Unset" ->
                   Err(UnsetParameterError("buildTree", "ConditionBuilder")))

(***************************************************************************)
(* KeyConditionBuilder (key_condition.rs)                                  *)
(***************************************************************************)
KeyConditionBuilder(operand_list, key_condition_list, mode) ==
    [operand_list |-> operand_list, key_condition_list |-> key_condition_list,
     mode |-> mode]

KeyConditionBuilder_default == KeyConditionBuilder(<<>>, <<>>, "Unset")

\* key_equal, key_less_than, key_less_than_equal, key_greater_than,
\* key_greater_than_equal
key_compare(mode, k, v) == KeyConditionBuilder(<<k, v>>, <<>>, mode)

key_between(k, upper, lower) ==
    KeyConditionBuilder(<<k, upper, lower>>, <<>>, "Between")

key_begins_with(k, prefix) ==
    KeyConditionBuilder(<<k, value("String", prefix)>>, <<>>, "BeginsWith")

\* key_and without the test of the right operand
key_and_unchecked_right(left, right) ==
    IF left.mode # "Equal"
    THEN KeyConditionBuilder(<<>>, <<>>, "Invalid")
    ELSE KeyConditionBuilder(<<>>, <<left, right>>, "And")

key_and(left, right) ==
    IF left.mode # "Equal"
    THEN KeyConditionBuilder(<<>>, <<>>, "Invalid")
    ELSE IF right.mode = "And"
    THEN KeyConditionBuilder(<<>>, <<>>, "Invalid")
    ELSE KeyConditionBuilder(<<>>, <<left, right>>, "And")

KeyCompareModes ==
    {"Equal", "LessThan", "LessThanEqual", "GreaterThan", "GreaterThanEqual"}

compare_build_key_condition(mode, node) ==
    CASE mode = "Equal" -> Ok([node EXCEPT !.fmt_expression = <<"$", "c", " ", "=", " ", "$", "c">>])
      [] mode = "LessThan" -> Ok([node EXCEPT !.fmt_expression = <<"$", "c", " ", "<", " ", "$", "c">>])
      [] mode = "LessThanEqual" -> Ok([node EXCEPT !.fmt_expression = <<"$", "c", " ", "<", "=", " ", "$", "c">>])
      [] mode = "GreaterThan" -> Ok([node EXCEPT !.fmt_expression = <<"$", "c", " ", ">", " ", "$", "c">>])
      [] mode = "GreaterThanEqual" -> Ok([node EXCEPT !.fmt_expression = <<"$", "c", " ", ">", "=", " ", "$", "c">>])
      [] OTHER -> Err(Bail("build compare key condition error: unsupported mode: ",
                           mode))

and_build_key_condition(key_condition_builder, node) ==
    IF Len(key_condition_builder.key_condition_list) = 0
       /\ Len(key_condition_builder.operand_list) = 0
    THEN Err(InvalidParameterError("andBuildKeyCondition", "KeyConditionBuilder"))
    ELSE Ok([node EXCEPT !.fmt_expression = <<"(", "$", "c", ")", " ", "A", "N", "D", " ", "(", "$", "c", ")">>])

key_between_build_condition(node) ==
    [node EXCEPT !.fmt_expression = <<"$", "c", " ", "B", "E", "T", "W", "E", "E", "N", " ", "$", "c", " ", "A", "N", "D", " ", "$", "c">>]

key_begins_with_build_condition(node) ==
    [node EXCEPT !.fmt_expression = <<"b", "e", "g", "i", "n", "s", "_", "w", "i", "t", "h", " ", "(", "$", "c", ",", " ", "$", "c", ")">>]

RECURSIVE key_condition_build_tree(_)
RECURSIVE key_condition_list_nodes(_, _, _)

\* first loop of KeyConditionBuilder::build_child_nodes, over key_condition_list
key_condition_list_nodes(key_condition_list, i, child_nodes) ==
    IF i > Len(key_condition_list) THEN Ok(child_nodes)
    ELSE Try(key_condition_build_tree(key_condition_list[i]), LAMBDA node :
           key_condition_list_nodes(key_condition_list, i + 1,
                                    Append(child_nodes, node)))

\* second loop of KeyConditionBuilder::build_child_nodes, over operand_list
RECURSIVE key_condition_operand_nodes(_, _, _)
key_condition_operand_nodes(operand_list, i, child_nodes) ==
    IF i > Len(operand_list) THEN Ok(child_nodes)
    ELSE Try(build_operand(operand_list[i]), LAMBDA operand :
           key_condition_operand_nodes(operand_list, i + 1,
                                       Append(child_nodes, operand.expression_node)))

\* build_child_nodes without the loop over key_condition_list
key_condition_build_child_nodes_operands_only(kcb) ==
    key_condition_operand_nodes(kcb.operand_list, 1, <<>>)

key_condition_build_child_nodes(kcb) ==
    Try(key_condition_list_nodes(kcb.key_condition_list, 1, <<>>),
        LAMBDA child_nodes :
          key_condition_operand_nodes(kcb.operand_list, 1, child_nodes))

key_condition_build_tree(kcb) ==
    Try(key_condition_build_child_nodes(kcb), LAMBDA child_nodes :
         LET ret == from_children(child_nodes)
         IN CASE kcb.mode \in KeyCompareModes ->
                   compare_build_key_condition(kcb.mode, ret)
              [] kcb.mode = "And" -> and_build_key_condition(kcb, ret)
              [] kcb.mode = "Between" -> Ok(key_between_build_condition(ret))
              [] kcb.mode = "BeginsWith" -> Ok(key_begins_with_build_condition(ret))
              [] kcb.mode = "Unset" ->
                   Err(UnsetParameterError("buildTree", "KeyConditionBuilder"))
              [] kcb.mode = "Invalid" ->
                   Err(Bail("buildKeyCondition error: invalid key condition constructed",
                            "")))

(***************************************************************************)
(* ProjectionBuilder (projection.rs)                                       *)
(***************************************************************************)
ProjectionBuilder_default == [names |-> <<>>]

names_list(name_builder, names) == [names |-> <<name_builder>> \o names]

add_names(projection_builder, names) ==
    [projection_builder EXCEPT !.names = projection_builder.names \o names]

RECURSIVE projection_build_child_nodes(_, _, _)
projection_build_child_nodes(names, i, child_nodes) ==
    IF i > Len(names) THEN Ok(child_nodes)
    ELSE Try(name_build_operand(names[i]), LAMBDA operand :
           projection_build_child_nodes(names, i + 1,
                                        Append(child_nodes, operand.expression_node)))

\* build_tree without the test for an empty names list
projection_build_tree_unchecked(pb) ==
    Try(projection_build_child_nodes(pb.names, 1, <<>>), LAMBDA child_nodes :
      Ok(from_children_expression(
           child_nodes,
           <<"$", "c">> \o repeat(<<",", " ", "$", "c">>, Len(pb.names) - 1))))

projection_build_tree(pb) ==
    IF Len(pb.names) = 0
    THEN Err(UnsetParameterError("buildTree", "ProjectionBuilder"))
    ELSE
      Try(projection_build_child_nodes(pb.names, 1, <<>>), LAMBDA child_nodes :
        Ok(from_children_expression(
             child_nodes,
             <<"$", "c">> \o repeat(<<",", " ", "$", "c">>, Len(pb.names) - 1))))

(***************************************************************************)
(* std::collections::HashMap: the order of keys()                          *)
(***************************************************************************)
\* the number of RandomStates told apart
HashSeeds == 2

\* the keys of a set, one after the other
RECURSIVE keys_of(_)
keys_of(ks) ==
    IF ks = {} THEN <<>>
    ELSE LET k == CHOOSE k \in ks : TRUE
         IN <<k>> \o keys_of(ks \ {k})

\* the keys of keys_of rotated by random_state \div 2 places, backwards when
\* random_state is odd
keys_in_order(ks, n) ==
    [i \in 1..n |->
        ks[IF random_state % 2 = 1
           THEN n - ((i - 1 + random_state \div 2) % n)
           ELSE 1 + ((i - 1 + random_state \div 2) % n)]]

\* HashMap::keys(): the keys of the map in an order that depends on the
\* RandomState of the map and not on the order of the inserts
HashMap_keys(map) == keys_in_order(keys_of(DOMAIN map), Cardinality(DOMAIN map))

(***************************************************************************)
(* UpdateBuilder (update.rs)                                               *)
(***************************************************************************)
\* OperationMode ordered by the name of the mode
OperationMode_ord_by_name(mode) ==
    CASE mode = "Add" -> 0 [] mode = "Delete" -> 1
      [] mode = "Remove" -> 2 [] mode = "Set" -> 3

\* the derived Ord of OperationMode: the position of the variant
OperationMode_ord(mode) ==
    CASE mode = "Set" -> 0 [] mode = "Remove" -> 1
      [] mode = "Add" -> 2 [] mode = "Delete" -> 3

OperationMode_as_str(mode) ==
    CASE mode = "Set" -> <<"S", "E", "T">> [] mode = "Remove" -> <<"R", "E", "M", "O", "V", "E">>
      [] mode = "Add" -> <<"A", "D", "D">> [] mode = "Delete" -> <<"D", "E", "L", "E", "T", "E">>

\* Option<Box<dyn OperandBuilder>>
None == [some |-> FALSE]

Some(v) == [some |-> TRUE, v |-> v]

OperationBuilder(nm, v, mode) == [name |-> nm, value |-> v, mode |-> mode]

\* build_operation without the early return of Remove
build_operation_without_return(opb) ==
    Try(name_build_operand(opb.name), LAMBDA path_child :
      LET node == from_children_expression(<<path_child.expression_node>>,
                                           <<"$", "c">>)
      IN IF FALSE THEN Ok(node)
         ELSE
           \* `if let Some(value) = &self.value`: the children after the push
           Try(IF opb.value.some
               THEN Try(build_operand(opb.value.v), LAMBDA value_child :
                      Ok(Append(node.children, value_child.expression_node)))
               ELSE Ok(node.children),
               LAMBDA children :
                 CASE opb.mode = "Set" ->
                        Ok([node EXCEPT !.children = children,
                                        !.fmt_expression = @ \o <<" ", "=", " ", "$", "c">>])
                   [] opb.mode \in {"Add", "Delete"} ->
                        Ok([node EXCEPT !.children = children,
                                        !.fmt_expression = @ \o <<" ", "$", "c">>])
                   [] OTHER ->
                        Err(Bail("build update error: build operation error: unsupported mode: ",
                                 opb.mode))))

build_operation(opb) ==
    Try(name_build_operand(opb.name), LAMBDA path_child :
      LET node == from_children_expression(<<path_child.expression_node>>,
                                           <<"$", "c">>)
      IN IF opb.mode = "Remove" THEN Ok(node)
         ELSE
           \* `if let Some(value) = &self.value`: the children after the push
           Try(IF opb.value.some
               THEN Try(build_operand(opb.value.v), LAMBDA value_child :
                      Ok(Append(node.children, value_child.expression_node)))
               ELSE Ok(node.children),
               LAMBDA children :
                 CASE opb.mode = "Set" ->
                        Ok([node EXCEPT !.children = children,
                                        !.fmt_expression = @ \o <<" ", "=", " ", "$", "c">>])
                   [] opb.mode \in {"Add", "Delete"} ->
                        Ok([node EXCEPT !.children = children,
                                        !.fmt_expression = @ \o <<" ", "$", "c">>])
                   [] OTHER ->
                        Err(Bail("build update error: build operation error: unsupported mode: ",
                                 opb.mode))))

RECURSIVE operation_nodes(_, _, _)
\* the `for val in operation_builder_list` loop of OperationBuilder::build_child_nodes
operation_nodes(operation_builder_list, i, node) ==
    IF i > Len(operation_builder_list) THEN Ok(node)
    ELSE Try(build_operation(operation_builder_list[i]), LAMBDA val_node :
           operation_nodes(operation_builder_list, i + 1,
                           [node EXCEPT !.children = Append(@, val_node)]))

operation_build_child_nodes(operation_builder_list) ==
    IF Len(operation_builder_list) = 0
    THEN Err(Bail("buildChildNodes error: operationBuilder list is empty", ""))
    ELSE operation_nodes(
           operation_builder_list, 1,
           [ExpressionNode_default EXCEPT
              !.fmt_expression =
                  <<"$", "c">> \o repeat(<<",", " ", "$", "c">>, Len(operation_builder_list) - 1)])

\* UpdateBuilder.operations is a HashMap<OperationMode, Vec<OperationBuilder>>:
\* a function whose domain is the set of modes that have an entry
UpdateBuilder_default == [operations |-> <<>>]

\* entry(mode).or_insert_with(Vec::new).push(op)
operations_push(operations, mode, op) ==
    [m \in DOMAIN operations \cup {mode} |->
        IF m = mode
        THEN (IF mode \in DOMAIN operations THEN operations[m] ELSE <<>>) \o <<op>>
        ELSE operations[m]]

update_set(ub, nm, operand_builder) ==
    [ub EXCEPT !.operations =
        operations_push(@, "Set", OperationBuilder(nm, Some(operand_builder), "Set"))]

update_remove(ub, nm) ==
    [ub EXCEPT !.operations =
        operations_push(@, "Remove", OperationBuilder(nm, None, "Remove"))]

update_add(ub, nm, v) ==
    [ub EXCEPT !.operations =
        operations_push(@, "Add", OperationBuilder(nm, Some(v), "Add"))]

update_delete(ub, nm, v) ==
    [ub EXCEPT !.operations =
        operations_push(@, "Delete", OperationBuilder(nm, Some(v), "Delete"))]

\* a sorted Vec of modes with one more mode put at its place
insert_mode(sorted, mode) ==
    SelectSeq(sorted, LAMBDA o : OperationMode_ord(o) < OperationMode_ord(mode))
    \o <<mode>>
    \o SelectSeq(sorted, LAMBDA o : OperationMode_ord(o) >= OperationMode_ord(mode))

\* modes.sort(): the Vec `modes`, filled in the order of operations.keys(),
\* in ascending order
RECURSIVE sorted_modes(_)
sorted_modes(modes) ==
    IF Len(modes) = 0 THEN <<>>
    ELSE insert_mode(sorted_modes(Tail(modes)), Head(modes))

RECURSIVE update_modes(_, _, _, _)
\* the `for key in modes` loop of UpdateBuilder::build_tree
update_modes(ub, modes, i, ret) ==
    IF i > Len(modes) THEN Ok(ret)
    ELSE
      Try(operation_build_child_nodes(ub.operations[modes[i]]), LAMBDA child_node :
        update_modes(ub, modes, i + 1,
               [ret EXCEPT
                  !.fmt_expression = @ \o OperationMode_as_str(modes[i]) \o <<" ", "$", "c", "\n">>,
                  !.children = Append(@, child_node)]))

update_build_tree(ub) ==
    IF DOMAIN ub.operations = {}
    THEN Err(UnsetParameterError("buildTree", "UpdateBuilder"))
    ELSE update_modes(ub, sorted_modes(HashMap_keys(ub.operations)), 1,
                      ExpressionNode_default)

(***************************************************************************)
(* Builder and Expression (expression.rs)                                  *)
(***************************************************************************)
ExpressionTypes == {"Projection", "KeyCondition", "Condition", "Filter", "Update"}

\* ExpressionType ordered by the name of the kind, as the sort of the Go
\* package orders its string keys
ExpressionType_ord_by_name(expression_type) ==
    CASE expression_type = "Condition" -> 0
      [] expression_type = "Filter" -> 1
      [] expression_type = "KeyCondition" -> 2
      [] expression_type = "Projection" -> 3
      [] expression_type = "Update" -> 4

\* the derived Ord of ExpressionType: the position of the variant in the enum
ExpressionType_ord(expression_type) ==
    CASE expression_type = "Projection" -> 0
      [] expression_type = "KeyCondition" -> 1
      [] expression_type = "Condition" -> 2
      [] expression_type = "Filter" -> 3
      [] expression_type = "Update" -> 4

\* Box<dyn TreeBuilder>: the boxed builder together with its concrete type
Box(ty, b) == [ty |-> ty, b |-> b]

\* dyn TreeBuilder::build_tree, dispatched on the concrete type
build_tree(tb) ==
    CASE tb.ty = "ConditionBuilder" -> condition_build_tree(tb.b)
      [] tb.ty = "KeyConditionBuilder" -> key_condition_build_tree(tb.b)
      [] tb.ty = "ProjectionBuilder" -> projection_build_tree(tb.b)
      [] tb.ty = "UpdateBuilder" -> update_build_tree(tb.b)

\* HashMap::new()
HashMap_new == [k \in {} |-> 0]

\* HashMap::insert(k, v): at most one entry per key, the new value replaces the old
HashMap_insert(map, k, v) ==
    [x \in DOMAIN map \cup {k} |-> IF x = k THEN v ELSE map[x]]

\* HashMap::get(k)
HashMap_get(map, k) == IF k \in DOMAIN map THEN Some(map[k]) ELSE None

Builder_new == HashMap_new

with_condition(exprs, condition_builder) ==
    HashMap_insert(exprs, "Condition", Box("ConditionBuilder", condition_builder))

with_projection(exprs, projection_builder) ==
    HashMap_insert(exprs, "Projection", Box("ProjectionBuilder", projection_builder))

with_key_condition(exprs, key_condition_builder) ==
    HashMap_insert(exprs, "KeyCondition",
                   Box("KeyConditionBuilder", key_condition_builder))

\* with_filter storing its argument under the Condition key
with_filter_as_condition(exprs, cb) ==
    HashMap_insert(exprs, "Condition", Box("ConditionBuilder", cb))

with_filter(exprs, cb) ==
    HashMap_insert(exprs, "Filter", Box("ConditionBuilder", cb))

with_update(exprs, update_builder) ==
    HashMap_insert(exprs, "Update", Box("UpdateBuilder", update_builder))

\* a sorted Vec of kinds with one more kind put at its place
insert_key(sorted, k) ==
    SelectSeq(sorted, LAMBDA o : ExpressionType_ord(o) < ExpressionType_ord(k))
    \o <<k>>
    \o SelectSeq(sorted, LAMBDA o : ExpressionType_ord(o) >= ExpressionType_ord(k))

\* build_child_trees without keys.sort(): the kinds in the order of keys()
sorted_keys_unsorted(keys) == keys

\* keys.sort(): the Vec `keys`, filled in the order of expressions.keys(), in
\* ascending order
RECURSIVE sorted_keys(_)
sorted_keys(keys) ==
    IF Len(keys) = 0 THEN <<>>
    ELSE insert_key(sorted_keys(Tail(keys)), Head(keys))

\* build_child_trees with an alias list of its own for every kind
RECURSIVE child_trees_own_aliases(_, _, _, _, _)
child_trees_own_aliases(exprs, keys, i, al, formatted_expressions) ==
    IF i > Len(keys) THEN Ok(<<al, formatted_expressions>>)
    ELSE
      Try(build_tree(exprs[keys[i]]), LAMBDA node :
        Try(render_result(build_expression_string(node, AliasList_default)),
            LAMBDA formatted_expression :
              child_trees_own_aliases(
                exprs, keys, i + 1,
                [names |-> al.names \o formatted_expression.al.names,
                 values |-> al.values \o formatted_expression.al.values],
                HashMap_insert(formatted_expressions, keys[i],
                               formatted_expression.str))))

\* build_child_trees that leaves a failing kind out and goes on
RECURSIVE child_trees_skip_failed(_, _, _, _, _)
child_trees_skip_failed(exprs, keys, i, al, formatted_expressions) ==
    IF i > Len(keys) THEN Ok(<<al, formatted_expressions>>)
    ELSE
      LET render(node) ==
              IF ~node.ok
              THEN child_trees_skip_failed(exprs, keys, i + 1, al,
                                           formatted_expressions)
              ELSE Try(render_result(build_expression_string(node.val, al)),
                       LAMBDA formatted_expression :
                         child_trees_skip_failed(
                           exprs, keys, i + 1, formatted_expression.al,
                           HashMap_insert(formatted_expressions, keys[i],
                                          formatted_expression.str)))
      IN render(build_tree(exprs[keys[i]]))

\* the `for key in keys.iter()` loop of Builder::build_child_trees
RECURSIVE child_trees(_, _, _, _, _)
child_trees(exprs, keys, i, al, formatted_expressions) ==
    IF i > Len(keys) THEN Ok(<<al, formatted_expressions>>)
    ELSE
      Try(build_tree(exprs[keys[i]]), LAMBDA node :
        Try(render_result(build_expression_string(node, al)),
            LAMBDA formatted_expression :
              child_trees(exprs, keys, i + 1, formatted_expression.al,
                          HashMap_insert(formatted_expressions, keys[i],
                                         formatted_expression.str))))

build_child_trees(exprs) ==
    child_trees(exprs, sorted_keys(HashMap_keys(exprs)), 1, AliasList_default,
                HashMap_new)

\* alias_map with keys counted from one
alias_map_one_based(prefix, list) ==
    [a \in {<<prefix>> \o usize_to_string(ind) : ind \in 1..Len(list)} |->
       list[CHOOSE ind \in 1..Len(list) : <<prefix>> \o usize_to_string(ind) = a]]

\* the map filled by `for (ind, val) in list.iter().enumerate()` with
\* insert(format!("{prefix}{ind}"), val)
alias_map(prefix, list) ==
    LET alias(ind) == <<prefix>> \o usize_to_string(ind)
    IN [a \in {alias(ind) : ind \in 0..(Len(list) - 1)} |->
          list[(CHOOSE ind \in 0..(Len(list) - 1) :
                  /\ alias(ind) = a
                  /\ \A o \in 0..(Len(list) - 1) : alias(o) = a => o <= ind) + 1]]

Expression_new(formatted_expressions) ==
    [expressions |-> formatted_expressions, names |-> None, values |-> None]

\* build without the is_empty() tests: both maps are always Some
build_always_some(exprs) ==
    Try(build_child_trees(exprs), LAMBDA trees :
      Ok([expressions |-> trees[2],
          names |-> Some(alias_map("#", trees[1].names)),
          values |-> Some(alias_map(":", trees[1].values))]))

build(exprs) ==
    Try(build_child_trees(exprs), LAMBDA trees :
      LET al == trees[1]
          expression == Expression_new(trees[2])
      IN Ok([expression EXCEPT
               !.names = IF Len(al.names) # 0
                         THEN Some(alias_map("#", al.names)) ELSE @,
               !.values = IF Len(al.values) # 0
                          THEN Some(alias_map(":", al.values)) ELSE @]))

\* Expression::return_expression and the five getters built on it
return_expression(expression, expression_type) ==
    HashMap_get(expression.expressions, expression_type)

condition(expression) == return_expression(expression, "Condition")

\* filter() reading the Condition entry
filter_reads_condition(expression) == return_expression(expression, "Condition")

filter(expression) == return_expression(expression, "Filter")

projection(expression) == return_expression(expression, "Projection")

key_condition(expression) == return_expression(expression, "KeyCondition")

update(expression) == return_expression(expression, "Update")

names(expression) == expression.names

values(expression) == expression.values

(***************************************************************************)
(* Inputs: the builders handed to the Builder, assembled through the       *)
(* public constructor functions or default-constructed                      *)
(***************************************************************************)
foo == <<"f", "o", "o">>

bar == <<"b", "a", "r">>

baz == <<"b", "a", "z">>

five == value("i64", 5)

six == value("i64", 6)

\* ConditionBuilders given to with_condition and with_filter
ConditionInputs ==
    { compare("Equal", name(foo), five),          \* name("foo").equal(value(5))
      compare("LessThan", name(bar), six),        \* name("bar").less_than(value(6))
      compare("Equal", five, six),                \* value(5).equal(value(6)): no name
      compare("Equal", name(<<>>), five),         \* name("").equal(value(5)): fails
      ConditionBuilder_default }                  \* fails

\* ProjectionBuilders given to with_projection
ProjectionInputs ==
    { names_list(name(foo), <<name(bar), name(baz)>>),
      names_list(name(<<"f", "o", "o", ".", "f", "o", "o">>), <<name(foo)>>),     \* repeated segments
      names_list(name(<<"f", "o", "o", "[", "$", "]">>), <<>>),                \* builds, fails to render
      ProjectionBuilder_default }                       \* fails

\* KeyConditionBuilders given to with_key_condition
KeyConditionInputs ==
    { key_compare("Equal", key(foo), five),
      key_and(key_compare("Equal", key(foo), five),
              key_compare("GreaterThan", key(bar), six)),
      key_and(key_compare("LessThan", key(foo), five),
              key_begins_with(key(bar), <<"x">>)),         \* Invalid: fails
      KeyConditionBuilder_default }                      \* fails

\* UpdateBuilders given to with_update
UpdateInputs ==
    { update_set(UpdateBuilder_default, name(foo), five),   \* set(name("foo"), value(5))
      update_remove(UpdateBuilder_default, name(baz)),      \* remove(name("baz"))
      UpdateBuilder_default }                               \* fails

\* path strings and literals given to an AliasList directly
AliasNames == {foo, bar, baz}

AliasValues == {attribute_value(five), attribute_value(six)}

\* trees rendered against an AliasList: a condition, a projection that repeats
\* a segment, a key condition
RenderNodes ==
    { condition_build_tree(compare("Equal", name(foo), five)).val,
      projection_build_tree(names_list(name(<<"f", "o", "o", ".", "f", "o", "o">>),
                                       <<name(bar), name(foo)>>)).val,
      key_condition_build_tree(key_compare("Equal", key(bar), five)).val }

\* the number of calls made on one AliasList
MaxAliasCalls == 4

\* the number of chained and() calls on one KeyConditionBuilder
MaxKeyAnds == 3

\* the characters a caller puts into a name, and the longest name given
NameChars == {"f", ".", "[", "]", "$", "U+00E9"}

MaxNameLen == 4

\* the conditions built on their own: In with no, one and two candidates,
\* Between, and the compounds of them
ConditionTreeInputs ==
    { in(name(foo), <<>>),
      in(name(foo), <<five>>),
      in(name(foo), <<five, six>>),
      in(five, <<name(bar), six>>),
      between(name(foo), five, six),
      not(in(name(bar), <<six>>)),
      and(in(name(foo), <<five>>), compare("Equal", name(bar), six)),
      \* equal(key(k), name(k))
      compare("Equal", key(<<"f">>), name(<<"f">>)),
      compare("Equal", key(<<"$">>), name(<<"$">>)),
      compare("Equal", key(<<"f", ".", "f">>), name(<<"f", ".", "f">>)),
      compare("Equal", key(<<"f", "[", "f", "]">>), name(<<"f", "[", "f", "]">>)) }

\* the conditions given to and, or and not: two comparisons, a default
\* ConditionBuilder, and what one call of and, or or not makes of them
CompoundLeaves ==
    { compare("Equal", name(foo), five),
      compare("LessThan", name(bar), six),
      ConditionBuilder_default }

CompoundArgs ==
    CompoundLeaves
    \cup {and(l, r) : l, r \in CompoundLeaves}
    \cup {or(l, r) : l, r \in CompoundLeaves}
    \cup {not(c) : c \in CompoundLeaves}

\* the calls of and, or and not
CompoundCalls ==
    [mode : {"And", "Or"}, args : {<<l, r>> : l, r \in CompoundArgs}]
    \cup [mode : {"Not"}, args : {<<c>> : c \in CompoundArgs}]

\* the OperationBuilders made in the crate: a valid and an empty name, with
\* a value, a name or a failing name stored, in each mode, and a Remove that
\* stores nothing
OperationInputs ==
    {OperationBuilder(nm, v, mode) :
        nm \in {name(<<"b">>), name(<<>>)},
        v \in {Some(five), Some(name(<<"c">>)), Some(name(<<".">>))},
        mode \in {"Set", "Remove", "Add", "Delete"}}
    \cup {OperationBuilder(nm, None, "Remove") : nm \in {name(<<"b">>), name(<<>>)}}

\* conditions with leaves that fail in different ways: an empty name, an
\* empty key, a default ConditionBuilder, In without candidates; two levels
\* of and over them; builders made in the crate that hold a condition and
\* an operand at once, or have no mode
FailingLeaves ==
    { compare("Equal", five, six),
      compare("Equal", name(<<>>), five),
      compare("Equal", five, key(<<>>)),
      compare("Equal", name(<<>>), key(<<>>)),
      compare("Equal", key(<<>>), name(<<>>)),
      in(name(<<>>), <<>>),
      ConditionBuilder_default }

FailingConditionInputs ==
    FailingLeaves
    \cup {and(l, r) : l, r \in FailingLeaves}
    \cup {and(and(l, r), x) : l, r, x \in FailingLeaves}
    \cup {ConditionBuilder(<<o>>, <<c>>, "Equal") :
             o \in {five, name(<<>>), key(<<>>)}, c \in FailingLeaves}
    \cup {ConditionBuilder(<<name(<<>>)>>, <<>>, "Unset"),
          ConditionBuilder(<<>>, <<compare("Equal", key(<<>>), five)>>, "Unset")}

\* the characters of the templates given to hand-made nodes, and the longest
\* such template
TemplateChars == {"$", "n", "v", "c", "!"}

MaxTemplateLen == 4

Templates == UNION {[1..n -> TemplateChars] : n \in 0..MaxTemplateLen}

\* what a hand-made node holds beside its template: one name, one value and
\* one child; nothing; a child that fails to render; a child out of two that
\* fails to render below it
Payloads ==
    { [names |-> <<foo>>, values |-> <<attribute_value(five)>>,
       children |-> <<from_names(<<bar>>, <<"$", "n">>)>>],
      [names |-> <<>>, values |-> <<>>, children |-> <<>>],
      [names |-> <<foo>>, values |-> <<attribute_value(five)>>,
       children |-> <<from_names(<<bar>>, <<"$", "n", ".", "$">>)>>],
      [names |-> <<foo, bar>>, values |-> <<attribute_value(five), attribute_value(six)>>,
       children |-> <<from_names(<<baz>>, <<"$", "n">>),
                      from_children_expression(
                        <<from_values(<<attribute_value(six)>>, <<"$", "v">>),
                          ExpressionNode(<<>>, <<>>, <<>>, <<"$", "!">>)>>,
                        <<"$", "c", "$", "c">>)>>] }

\* nodes made inside the crate as its tests make them: every template over
\* every payload (among them the nodes of missing_char, values_out_of_range
\* and childre_out_of_range), the nodes of nested_path_with_index,
\* names_out_of_range and equal_expression, and nodes whose template mixes
\* the three markers
NodeInputs ==
    { ExpressionNode(p.names, p.values, p.children, t) :
        p \in Payloads, t \in Templates } \cup
    { from_names(<<foo>>, <<"$", "n", ".", "$">>),
      from_names(<<foo>>, <<"$", "n", ".", "$", "n">>),
      from_names(<<foo, bar, baz>>,
                 <<"$", "n", ".", "$", "n", "[", "0", "]", ".", "$", "n">>),
      from_children_expression(
        <<from_names(<<foo>>, <<"$", "n">>),
          from_values(<<attribute_value(five)>>, <<"$", "v">>)>>,
        <<"$", "c", " ", "=", " ", "$", "c">>),
      [names |-> <<foo, bar>>,
       values |-> <<attribute_value(five), attribute_value(six)>>,
       children |-> <<[names |-> <<baz, foo>>,
                       values |-> <<attribute_value(six)>>,
                       children |-> <<>>,
                       fmt_expression |-> <<"$", "n", "v", "$", "v", "c", "$", "n">>],
                      from_names(<<bar>>, <<"n", "$", "n">>)>>,
       fmt_expression |-> <<"$", "v", " ", "$", "c", "$", "n", "$", "c", " ",
                            "$", "n", "$", "v">>] }

\* the attribute names and the set() operands of the update calls, and the
\* largest number of calls made on one UpdateBuilder
UpdateNames == {<<"a">>, <<"b">>}

SetOperands == {five, name(<<"c">>)}

MaxUpdateCalls == 3

NameStrings == UNION {[1..n -> NameChars] : n \in 0..MaxNameLen}

\* the strings given to name(): the short ones and two documented paths
NameInputs ==
    NameStrings
    \cup {<<"f", "o", "o", ".", "b", "a", "r", "[", "0", "]", ".", "b", "a", "z">>,
          <<"f", "o", "o", ".", "f", "o", "o">>}

\* the strings without '.' and brackets: one plain segment, or nothing
PlainStrings ==
    {k \in NameStrings : \A i \in DOMAIN k : k[i] \notin {".", "[", "]"}}

\* key conditions made by the leaf constructors on a key of one plain segment
KeyConditionTreeInputs ==
    {key_compare(m, key(k), five) : m \in KeyCompareModes, k \in PlainStrings}
    \cup {key_between(key(k), five, six) : k \in PlainStrings}
    \cup {key_begins_with(key(k), <<"x">>) : k \in PlainStrings}

\* the literals given to value(): a bool, an i64, a String, string lists,
\* nested lists and maps (empty and not)
ValueInputs ==
    { value("bool", TRUE),
      five,
      value("String", <<"x">>),
      value("VecString", <<>>),
      value("VecString", <<<<"a">>, <<"b">>>>),
      value("VecValue", <<>>),
      value("VecValue", <<five, value("VecString", <<>>)>>),
      value("VecValue", <<value("VecValue", <<>>), value("MapValue", HashMap_new)>>),
      value("MapValue", HashMap_new),
      value("MapValue", [k \in {"a", "b"} |->
                           IF k = "a" THEN six ELSE value("VecValue", <<>>)]) }

\* key conditions made by the leaf constructors
KeyLeaves ==
    {key_compare(m, key(foo), five) : m \in KeyCompareModes}
    \cup {key_compare("Equal", key(bar), six),
          key_between(key(bar), five, six),
          key_begins_with(key(bar), <<"x">>),
          KeyConditionBuilder_default}

(***************************************************************************)
(* The state machine                                                       *)
(***************************************************************************)
NoResult == [ok |-> FALSE, err |-> [kind |-> "not built"]]

NoCall == [op |-> "new", kind |-> "", arg |-> HashMap_new]

\* no builder made yet
NoBuilder == Box("", HashMap_new)

Init ==
    /\ expressions = Builder_new
    /\ pc = "building"
    /\ result = NoResult
    /\ last_call = NoCall
    /\ alias_list = AliasList_default
    /\ alias_log = <<>>
    /\ kc = KeyConditionBuilder_default
    /\ kc_left = KeyConditionBuilder_default
    /\ kc_right = KeyConditionBuilder_default
    /\ kc_depth = 0
    /\ builder = NoBuilder
    /\ tree = NoResult
    /\ rendered = NoResult
    /\ calls = <<>>
    /\ random_state = 0

With(op, kind, arg, exprs) ==
    /\ pc = "building"
    /\ expressions' = exprs
    /\ last_call' = [op |-> op, kind |-> kind, arg |-> arg]
    /\ UNCHANGED <<pc, result>>
    /\ UNCHANGED alias_vars
    /\ UNCHANGED key_vars
    /\ UNCHANGED tree_vars
    /\ UNCHANGED hash_vars

WithCondition ==
    \E c \in ConditionInputs :
        With("with_condition", "Condition", c, with_condition(expressions, c))

WithProjection ==
    \E p \in ProjectionInputs :
        With("with_projection", "Projection", p, with_projection(expressions, p))

WithKeyCondition ==
    \E k \in KeyConditionInputs :
        With("with_key_condition", "KeyCondition", k,
             with_key_condition(expressions, k))

WithFilter ==
    \E f \in ConditionInputs :
        With("with_filter", "Filter", f, with_filter(expressions, f))

WithUpdate ==
    \E u \in UpdateInputs :
        With("with_update", "Update", u, with_update(expressions, u))

\* build(self): the Builder is consumed; expressions keeps what was built from
Build ==
    /\ pc = "building"
    /\ pc' = "built"
    /\ result' = build(expressions)
    /\ last_call' = [op |-> "build", kind |-> "", arg |-> HashMap_new]
    /\ UNCHANGED expressions
    /\ UNCHANGED alias_vars
    /\ UNCHANGED key_vars
    /\ UNCHANGED tree_vars
    /\ UNCHANGED hash_vars

\* Builder::new() / Builder::default(): a fresh Builder after a build
New ==
    /\ pc = "built"
    /\ pc' = "building"
    /\ expressions' = Builder_new
    /\ result' = NoResult
    /\ last_call' = NoCall
    /\ UNCHANGED alias_vars
    /\ UNCHANGED key_vars
    /\ UNCHANGED tree_vars
    /\ UNCHANGED hash_vars

\* the Builder of another run: its HashMaps draw another RandomState
Rehash ==
    /\ random_state' \in 0..(HashSeeds - 1) \ {random_state}
    /\ UNCHANGED builder_vars
    /\ UNCHANGED alias_vars
    /\ UNCHANGED key_vars
    /\ UNCHANGED tree_vars

Next ==
    \/ Rehash
    \/ WithCondition
    \/ WithProjection
    \/ WithKeyCondition
    \/ WithFilter
    \/ WithUpdate
    \/ Build
    \/ New

Spec == Init /\ [][Next]_vars

\* an AliasList used directly: alias_path(nm)
AliasPath ==
    \E nm \in AliasNames :
        /\ Len(alias_log) < MaxAliasCalls
        /\ LET r == alias_path(alias_list, nm)
           IN /\ alias_list' = r.al
              /\ alias_log' = Append(alias_log,
                                     [op |-> "alias_path", arg |-> nm,
                                      alias |-> r.alias])
        /\ UNCHANGED builder_vars
        /\ UNCHANGED key_vars
        /\ UNCHANGED tree_vars
        /\ UNCHANGED hash_vars

\* an AliasList used directly: alias_value(dav)
AliasValue ==
    \E dav \in AliasValues :
        /\ Len(alias_log) < MaxAliasCalls
        /\ LET r == alias_value(alias_list, dav)
           IN /\ alias_list' = r.al
              /\ alias_log' = Append(alias_log,
                                     [op |-> "alias_value", arg |-> dav,
                                      alias |-> r.alias])
        /\ UNCHANGED builder_vars
        /\ UNCHANGED key_vars
        /\ UNCHANGED tree_vars
        /\ UNCHANGED hash_vars

\* node.build_expression_string(&mut alias_list), as build_child_trees calls it
\* for one kind after the other on the same list
RenderNode ==
    \E node \in RenderNodes :
        /\ Len(alias_log) < MaxAliasCalls
        /\ LET r == build_expression_string(node, alias_list)
           IN /\ r.ok
              /\ alias_list' = r.al
              /\ alias_log' = Append(alias_log,
                                     [op |-> "render", arg |-> node,
                                      alias |-> r.str])
        /\ UNCHANGED builder_vars
        /\ UNCHANGED key_vars
        /\ UNCHANGED tree_vars
        /\ UNCHANGED hash_vars

NextAlias ==
    \/ AliasPath
    \/ AliasValue
    \/ RenderNode

SpecAlias == Init /\ [][NextAlias]_vars

\* a key condition made by one of the leaf constructors (or default-constructed)
KeyLeaf ==
    \E leaf \in KeyLeaves :
        /\ kc' = leaf
        /\ kc_depth' = 0
        /\ UNCHANGED <<kc_left, kc_right>>
        /\ UNCHANGED builder_vars
        /\ UNCHANGED alias_vars
        /\ UNCHANGED tree_vars
        /\ UNCHANGED hash_vars

\* kc.and(right)
KeyAndRight ==
    \E right \in KeyLeaves :
        /\ kc_depth < MaxKeyAnds
        /\ kc' = key_and(kc, right)
        /\ kc_left' = kc
        /\ kc_right' = right
        /\ kc_depth' = kc_depth + 1
        /\ UNCHANGED builder_vars
        /\ UNCHANGED alias_vars
        /\ UNCHANGED tree_vars
        /\ UNCHANGED hash_vars

\* left.and(kc)
KeyAndLeft ==
    \E left \in KeyLeaves :
        /\ kc_depth < MaxKeyAnds
        /\ kc' = key_and(left, kc)
        /\ kc_left' = left
        /\ kc_right' = kc
        /\ kc_depth' = kc_depth + 1
        /\ UNCHANGED builder_vars
        /\ UNCHANGED alias_vars
        /\ UNCHANGED tree_vars
        /\ UNCHANGED hash_vars

NextKey ==
    \/ KeyLeaf
    \/ KeyAndRight
    \/ KeyAndLeft

SpecKey == Init /\ [][NextKey]_vars

\* a builder was made by a public constructor function: nothing is built yet
Make(tb) ==
    /\ builder = NoBuilder
    /\ builder' = tb
    /\ tree' = NoResult
    /\ rendered' = NoResult
    /\ calls' = <<>>
    /\ UNCHANGED builder_vars
    /\ UNCHANGED alias_vars
    /\ UNCHANGED key_vars
    /\ UNCHANGED hash_vars

\* name(nm)
MakeName ==
    /\ builder = NoBuilder
    /\ \E nm \in NameInputs : Make(Box("Operand", name(nm)))

\* value(v)
MakeValue ==
    /\ builder = NoBuilder
    /\ \E v \in ValueInputs : Make(Box("Operand", v))

\* key(k)
MakeKey ==
    /\ builder = NoBuilder
    /\ \E k \in NameStrings : Make(Box("Operand", key(k)))

\* key(k).equal(..), less_than(..), .., between(..), begins_with(..)
MakeKeyCondition ==
    /\ builder = NoBuilder
    /\ \E c \in KeyConditionTreeInputs : Make(Box("KeyConditionBuilder", c))

\* name(..).r#in(..), between(..), not(..), and(..), ConditionBuilder { .. }
MakeCondition ==
    /\ builder = NoBuilder
    /\ \E c \in ConditionTreeInputs \cup FailingConditionInputs :
          Make(Box("ConditionBuilder", c))

\* left.and(right), left.or(right) or not(c): the call is kept beside the
\* builder it returns
MakeCompound ==
    /\ builder = NoBuilder
    /\ \E call \in CompoundCalls :
          /\ builder' = Box("ConditionBuilder",
                            CASE call.mode = "And" -> and(call.args[1], call.args[2])
                              [] call.mode = "Or" -> or(call.args[1], call.args[2])
                              [] call.mode = "Not" -> not(call.args[1]))
          /\ calls' = <<call>>
    /\ tree' = NoResult
    /\ rendered' = NoResult
    /\ UNCHANGED builder_vars
    /\ UNCHANGED alias_vars
    /\ UNCHANGED key_vars
    /\ UNCHANGED hash_vars

\* OperationBuilder { name, value, mode }
MakeOperation ==
    /\ builder = NoBuilder
    /\ \E opb \in OperationInputs : Make(Box("OperationBuilder", opb))

\* ExpressionNode::from_names(..), from_children_expression(..) or a struct
\* literal: the node is the tree
MakeNode ==
    /\ builder = NoBuilder
    /\ \E node \in NodeInputs :
          /\ builder' = Box("ExpressionNode", node)
          /\ tree' = Ok(node)
    /\ UNCHANGED <<rendered, calls>>
    /\ UNCHANGED builder_vars
    /\ UNCHANGED alias_vars
    /\ UNCHANGED key_vars
    /\ UNCHANGED hash_vars

\* one call of the update API on the UpdateBuilder assembled so far: the free
\* function (update.rs:93-119) starts from an empty UpdateBuilder, the method
\* consumes self and returns it with the operation pushed
UpdateCall(mode, nm, operand) ==
    /\ builder = NoBuilder \/ builder.ty = "UpdateBuilder"
    /\ tree = NoResult
    /\ Len(calls) < MaxUpdateCalls
    /\ LET ub == IF builder = NoBuilder THEN UpdateBuilder_default ELSE builder.b
       IN builder' = Box("UpdateBuilder",
                         CASE mode = "Set" -> update_set(ub, name(nm), operand.v)
                           [] mode = "Remove" -> update_remove(ub, name(nm))
                           [] mode = "Add" -> update_add(ub, name(nm), operand.v)
                           [] mode = "Delete" -> update_delete(ub, name(nm), operand.v))
    /\ calls' = Append(calls, [mode |-> mode, name |-> nm, operand |-> operand])
    /\ UNCHANGED <<tree, rendered>>
    /\ UNCHANGED builder_vars
    /\ UNCHANGED alias_vars
    /\ UNCHANGED key_vars
    /\ UNCHANGED hash_vars

\* set(name, operand_builder) / builder.set(name, operand_builder)
UpdateSet ==
    \E nm \in UpdateNames, operand \in SetOperands : UpdateCall("Set", nm, Some(operand))

\* remove(name) / builder.remove(name)
UpdateRemove == UpdateCall("Remove", <<"b">>, None)

\* add(name, value) / builder.add(name, value)
UpdateAdd == UpdateCall("Add", <<"b">>, Some(six))

\* delete(name, value) / builder.delete(name, value)
UpdateDelete == UpdateCall("Delete", <<"b">>, Some(five))

\* builder.build_operand() for an operand builder (the node of the Operand is
\* kept), builder.build_tree() for a tree builder
BuildTree ==
    /\ builder # NoBuilder
    /\ tree = NoResult
    /\ tree' = IF builder.ty = "Operand"
               THEN Try(build_operand(builder.b),
                        LAMBDA operand : Ok(operand.expression_node))
               ELSE IF builder.ty = "OperationBuilder"
               THEN build_operation(builder.b)
               ELSE build_tree(builder)
    /\ UNCHANGED <<builder, rendered, calls>>
    /\ UNCHANGED builder_vars
    /\ UNCHANGED alias_vars
    /\ UNCHANGED key_vars
    /\ UNCHANGED hash_vars

\* node.build_expression_string(&mut AliasList::default())
RenderTree ==
    /\ tree.ok
    /\ rendered = NoResult
    /\ rendered' = build_expression_string(tree.val, AliasList_default)
    /\ UNCHANGED <<builder, tree, calls>>
    /\ UNCHANGED builder_vars
    /\ UNCHANGED alias_vars
    /\ UNCHANGED key_vars
    /\ UNCHANGED hash_vars

\* the UpdateBuilder of another run: its HashMap draws another RandomState
RehashOperations ==
    /\ builder.ty = "UpdateBuilder"
    /\ random_state' \in 0..(HashSeeds - 1) \ {random_state}
    /\ UNCHANGED builder_vars
    /\ UNCHANGED alias_vars
    /\ UNCHANGED key_vars
    /\ UNCHANGED tree_vars

\* the builder and what was built from it go out of scope
DropTree ==
    /\ builder # NoBuilder
    /\ tree # NoResult
    /\ builder' = NoBuilder
    /\ tree' = NoResult
    /\ rendered' = NoResult
    /\ calls' = <<>>
    /\ UNCHANGED builder_vars
    /\ UNCHANGED alias_vars
    /\ UNCHANGED key_vars
    /\ random_state' = 0

NextTree ==
    \/ MakeName
    \/ MakeValue
    \/ MakeKey
    \/ MakeKeyCondition
    \/ MakeCondition
    \/ MakeCompound
    \/ MakeOperation
    \/ MakeNode
    \/ UpdateSet
    \/ UpdateRemove
    \/ UpdateAdd
    \/ UpdateDelete
    \/ RehashOperations
    \/ BuildTree
    \/ RenderTree
    \/ DropTree

SpecTree == Init /\ [][NextTree]_vars

(***************************************************************************)
(* Reading a rendered string back: the alias tokens it holds               *)
(***************************************************************************)
Digits == {"0", "1", "2", "3", "4", "5", "6", "7", "8", "9"}

\* the tokens <prefix><digits> of str, left to right, from position i on
RECURSIVE TokensFrom(_, _, _)
TokensFrom(str, prefix, i) ==
    IF i > Len(str) THEN <<>>
    ELSE IF str[i] # prefix THEN TokensFrom(str, prefix, i + 1)
    ELSE LET ends == {j \in (i + 1)..(Len(str) + 1) :
                        IF j = Len(str) + 1 THEN TRUE ELSE str[j] \notin Digits}
             e == CHOOSE j \in ends : \A o \in ends : j <= o
         IN <<SubSeq(str, i, e - 1)>> \o TokensFrom(str, prefix, e)

Tokens(str, prefix) == TokensFrom(str, prefix, 1)

\* the names (values) of a tree in the order the renderer meets them
RECURSIVE FlatNames(_)
RECURSIVE FlatNamesOf(_, _)
FlatNamesOf(children, i) ==
    IF i > Len(children) THEN <<>>
    ELSE FlatNames(children[i]) \o FlatNamesOf(children, i + 1)

FlatNames(node) == node.names \o FlatNamesOf(node.children, 1)

RECURSIVE FlatValues(_)
RECURSIVE FlatValuesOf(_, _)
FlatValuesOf(children, i) ==
    IF i > Len(children) THEN <<>>
    ELSE FlatValues(children[i]) \o FlatValuesOf(children, i + 1)

FlatValues(node) == node.values \o FlatValuesOf(node.children, 1)

\* s without the repetitions of an element already seen
RECURSIVE FirstSeen(_)
FirstSeen(s) ==
    IF Len(s) = 0 THEN <<>>
    ELSE LET front == FirstSeen(SubSeq(s, 1, Len(s) - 1))
         IN IF \E i \in 1..Len(front) : front[i] = s[Len(s)] THEN front
            ELSE Append(front, s[Len(s)])

Built == pc = "built"

BuiltOk == pc = "built" /\ result.ok

\* the tokens of the returned strings, the kinds taken in the given order
RECURSIVE TokensInOrder(_, _, _)
TokensInOrder(order, prefix, i) ==
    IF i > Len(order) THEN <<>>
    ELSE (IF order[i] \in DOMAIN result.val.expressions
          THEN Tokens(result.val.expressions[order[i]], prefix)
          ELSE <<>>) \o TokensInOrder(order, prefix, i + 1)

\* read in this order of kinds, the value tokens count :0, :1, ... and the
\* name tokens appear for the first time as #0, #1, ...
NumberedInOrder(order) ==
    LET vs == TokensInOrder(order, ":", 1)
        ns == FirstSeen(TokensInOrder(order, "#", 1))
    IN /\ \A i \in 1..Len(vs) : vs[i] = <<":">> \o usize_to_string(i - 1)
       /\ \A i \in 1..Len(ns) : ns[i] = <<"#">> \o usize_to_string(i - 1)

(***************************************************************************)
(* C1: build() renders the kinds that are present in one fixed order,      *)
(* whatever the order of the with_* calls, and hands out the alias indices *)
(* in that order.  The order is that of the ExpressionType enum:           *)
(* Projection, KeyCondition, Condition, Filter, Update.                    *)
(***************************************************************************)
C1_KindOrder ==
    BuiltOk =>
        NumberedInOrder(<<"Projection", "KeyCondition", "Condition", "Filter",
                          "Update">>)

\* C1 as stated: the order is Condition, Filter, Projection, KeyCondition, Update
C1_AsStated ==
    BuiltOk =>
        NumberedInOrder(<<"Condition", "Filter", "Projection", "KeyCondition",
                          "Update">>)

\* a Condition and a KeyCondition with one literal each were built:
\* the KeyCondition's literal is :0 and the Condition's is :1
C1_Witness ==
    /\ BuiltOk
    /\ DOMAIN expressions = {"Condition", "KeyCondition"}
    /\ last_call.op = "build"
    /\ Tokens(result.val.expressions["KeyCondition"], ":") = <<<<":", "0">>>>
    /\ Tokens(result.val.expressions["Condition"], ":") = <<<<":", "1">>>>

(***************************************************************************)
(* C2: the Builder of tests::compound (Condition name(foo) = 5, Filter     *)
(* name(bar) < 6, Projection [foo, bar, baz], KeyCondition key(foo) = 5,   *)
(* Update set(foo, 5)) builds to KeyCondition "#0 = :0", Condition         *)
(* "#0 = :1", Filter "#1 < :2", Projection "#0, #1, #2", Update            *)
(* "SET #0 = :3\n", names {#0: foo, #1: bar, #2: baz} and values           *)
(* {:0: 5, :1: 5, :2: 6, :3: 5}; and in every build the value aliases are  *)
(* numbered KeyCondition first, then Condition, Filter, Update.            *)
(***************************************************************************)
CompoundBuilder ==
    [Condition |-> Box("ConditionBuilder", compare("Equal", name(foo), five)),
     Filter |-> Box("ConditionBuilder", compare("LessThan", name(bar), six)),
     Projection |-> Box("ProjectionBuilder",
                        names_list(name(foo), <<name(bar), name(baz)>>)),
     KeyCondition |-> Box("KeyConditionBuilder",
                          key_compare("Equal", key(foo), five)),
     Update |-> Box("UpdateBuilder",
                    update_set(UpdateBuilder_default, name(foo), five))]

N5 == [t |-> "N", v |-> <<"5">>]

N6 == [t |-> "N", v |-> <<"6">>]

CompoundExpression ==
    [expressions |->
        [Condition |-> <<"#", "0", " ", "=", " ", ":", "1">>,
         Filter |-> <<"#", "1", " ", "<", " ", ":", "2">>,
         Projection |-> <<"#", "0", ",", " ", "#", "1", ",", " ", "#", "2">>,
         KeyCondition |-> <<"#", "0", " ", "=", " ", ":", "0">>,
         Update |-> <<"S", "E", "T", " ", "#", "0", " ", "=", " ", ":", "3", "\n">>],
     names |-> Some((<<"#", "0">> :> foo) @@ (<<"#", "1">> :> bar) @@ (<<"#", "2">> :> baz)),
     values |-> Some((<<":", "0">> :> N5) @@ (<<":", "1">> :> N5) @@ (<<":", "2">> :> N6)
                     @@ (<<":", "3">> :> N5))]

C2_Compound ==
    /\ (Built /\ expressions = CompoundBuilder) => result = Ok(CompoundExpression)
    /\ BuiltOk =>
         LET vs == TokensInOrder(<<"KeyCondition", "Condition", "Filter", "Update">>,
                                 ":", 1)
         IN /\ \A i \in 1..Len(vs) : vs[i] = <<":">> \o usize_to_string(i - 1)
            /\ result.val.values.some => Len(vs) = Cardinality(DOMAIN result.val.values.v)

C2_Witness == Built /\ expressions = CompoundBuilder /\ result.ok

(***************************************************************************)
(* C3: in one AliasList the names are deduplicated by string equality in   *)
(* first-seen order and the values are never deduplicated: the names list  *)
(* holds no two equal strings, alias_path returns the same #k for a string *)
(* every time, #k keeps naming that string, and every alias_value call     *)
(* appends one slot and returns a :k not returned before.                  *)
(***************************************************************************)
\* what the calls of alias_log asked for and what they got, in call order
RECURSIVE Asked(_, _)
Asked(kind, i) ==
    IF i > Len(alias_log) THEN <<>>
    ELSE (CASE alias_log[i].op = "render" ->
                 IF kind = "#" THEN FlatNames(alias_log[i].arg)
                 ELSE FlatValues(alias_log[i].arg)
            [] alias_log[i].op = "alias_path" /\ kind = "#" -> <<alias_log[i].arg>>
            [] alias_log[i].op = "alias_value" /\ kind = ":" -> <<alias_log[i].arg>>
            [] OTHER -> <<>>) \o Asked(kind, i + 1)

RECURSIVE Got(_, _)
Got(kind, i) ==
    IF i > Len(alias_log) THEN <<>>
    ELSE (CASE alias_log[i].op = "render" -> Tokens(alias_log[i].alias, kind)
            [] alias_log[i].op = "alias_path" /\ kind = "#" -> <<alias_log[i].alias>>
            [] alias_log[i].op = "alias_value" /\ kind = ":" -> <<alias_log[i].alias>>
            [] OTHER -> <<>>) \o Got(kind, i + 1)

C3_AliasDedup ==
    LET nreq == Asked("#", 1)
        ntok == Got("#", 1)
        vreq == Asked(":", 1)
        vtok == Got(":", 1)
    IN /\ \A i, j \in 1..Len(alias_list.names) :
             alias_list.names[i] = alias_list.names[j] => i = j
       /\ Len(ntok) = Len(nreq)
       /\ \A i, j \in 1..Len(nreq) : nreq[i] = nreq[j] <=> ntok[i] = ntok[j]
       /\ \A i \in 1..Len(nreq) :
             \E k \in 1..Len(alias_list.names) :
                /\ ntok[i] = <<"#">> \o usize_to_string(k - 1)
                /\ alias_list.names[k] = nreq[i]
       /\ alias_list.names = FirstSeen(nreq)
       /\ Len(vtok) = Len(vreq)
       /\ Len(alias_list.values) = Len(vreq)
       /\ \A i \in 1..Len(vreq) :
             /\ vtok[i] = <<":">> \o usize_to_string(i - 1)
             /\ alias_list.values[i] = vreq[i]

\* the same path was aliased twice and an equal literal twice, across two renders
C3_Witness ==
    LET nreq == Asked("#", 1)
        vreq == Asked(":", 1)
    IN /\ \E i, j \in 1..Len(nreq) : i < j /\ nreq[i] = nreq[j]
       /\ \E i, j \in 1..Len(vreq) : i < j /\ vreq[i] = vreq[j]
       /\ \E i, j \in 1..Len(alias_log) :
             i # j /\ alias_log[i].op = "render" /\ alias_log[j].op = "render"

\* the tree build_tree gives for the builder of a kind that was built
TreeOf(kind) == build_tree(expressions[kind]).val

\* option as a map: None holds no key
KeysOf(opt) == IF opt.some THEN DOMAIN opt.v ELSE {}

\* the kinds in the order of the ExpressionType enum
KindOrder == <<"Projection", "KeyCondition", "Condition", "Filter", "Update">>

(***************************************************************************)
(* C4: after a successful build() that aliased N distinct name segments    *)
(* and M literal occurrences, the names map has exactly the keys           *)
(* #0 .. #(N-1) and the values map exactly the keys :0 .. :(M-1), every    *)
(* token in a returned string is a key of its map, and the key maps to the *)
(* raw segment or literal the token replaced.                              *)
(***************************************************************************)
C4_AliasMaps ==
    BuiltOk =>
      LET kinds == DOMAIN expressions
          allnames == UNION {{FlatNames(TreeOf(k))[i] :
                                 i \in 1..Len(FlatNames(TreeOf(k)))} : k \in kinds}
          N == Cardinality(allnames)
          M == Len(FlatValuesOf([i \in 1..Len(KindOrder) |->
                                   IF KindOrder[i] \in kinds THEN TreeOf(KindOrder[i])
                                   ELSE ExpressionNode_default], 1))
      IN /\ KeysOf(result.val.names) = {<<"#">> \o usize_to_string(i) : i \in 0..(N - 1)}
         /\ KeysOf(result.val.values) = {<<":">> \o usize_to_string(i) : i \in 0..(M - 1)}
         /\ \A k \in kinds :
              LET str == result.val.expressions[k]
                  ntok == Tokens(str, "#")
                  vtok == Tokens(str, ":")
              IN /\ Len(ntok) = Len(FlatNames(TreeOf(k)))
                 /\ Len(vtok) = Len(FlatValues(TreeOf(k)))
                 /\ \A i \in 1..Len(ntok) :
                       /\ ntok[i] \in KeysOf(result.val.names)
                       /\ result.val.names.v[ntok[i]] = FlatNames(TreeOf(k))[i]
                 /\ \A i \in 1..Len(vtok) :
                       /\ vtok[i] \in KeysOf(result.val.values)
                       /\ result.val.values.v[vtok[i]] = FlatValues(TreeOf(k))[i]

\* a build with three distinct names, one of them used by several kinds, and
\* several literals
C4_Witness ==
    /\ BuiltOk
    /\ Cardinality(KeysOf(result.val.names)) = 3
    /\ Cardinality(KeysOf(result.val.values)) >= 3
    /\ Cardinality(DOMAIN result.val.expressions) >= 4

(***************************************************************************)
(* C5: names() is None exactly when the build aliased no attribute name    *)
(* and otherwise Some of a non-empty map; values() likewise for literals;  *)
(* the two are independent and neither is ever Some(empty map).            *)
(***************************************************************************)
C5_UnsetMaps ==
    BuiltOk =>
      LET kinds == DOMAIN expressions
      IN /\ ~names(result.val).some <=> \A k \in kinds : Len(FlatNames(TreeOf(k))) = 0
         /\ ~values(result.val).some <=> \A k \in kinds : Len(FlatValues(TreeOf(k))) = 0
         /\ names(result.val).some => DOMAIN names(result.val).v # {}
         /\ values(result.val).some => DOMAIN values(result.val).v # {}

\* a projection-only build: names is Some, values is None
C5_Witness ==
    /\ BuiltOk
    /\ DOMAIN expressions = {"Projection"}
    /\ names(result.val).some
    /\ ~values(result.val).some

(***************************************************************************)
(* C6: build() on an empty Builder (no with_* call made) returns the typed *)
(* unset/empty-parameter error instead of an Expression.                   *)
(***************************************************************************)
C6_EmptyBuilderFails ==
    (Built /\ DOMAIN expressions = {}) =>
        (~result.ok /\ result.err.kind = "UnsetParameterError")

(***************************************************************************)
(* C7: after a successful build() each of condition(), filter(),           *)
(* projection(), key_condition() and update() is Some(rendered string) if  *)
(* and only if a builder of that kind was added, and None otherwise; a     *)
(* Builder with nothing added builds to an Expression whose five getters,  *)
(* names() and values() are all None.                                      *)
(***************************************************************************)
Getter(kind, expression) ==
    CASE kind = "Condition" -> condition(expression)
      [] kind = "Filter" -> filter(expression)
      [] kind = "Projection" -> projection(expression)
      [] kind = "KeyCondition" -> key_condition(expression)
      [] kind = "Update" -> update(expression)

C7_WitnessEmpty == Built /\ last_call.op = "build" /\ DOMAIN expressions = {}

(***************************************************************************)
(* C8: a with_X call replaces only the builder of kind X by the one given  *)
(* (the last one given wins) and leaves the builders of the four other     *)
(* kinds as they were; the Builder holds at most one builder per kind, and *)
(* with_condition and with_filter fill two separate kinds.                 *)
(***************************************************************************)
KindOfCall(op) ==
    CASE op = "with_condition" -> "Condition"
      [] op = "with_filter" -> "Filter"
      [] op = "with_projection" -> "Projection"
      [] op = "with_key_condition" -> "KeyCondition"
      [] op = "with_update" -> "Update"

WithCalls ==
    {"with_condition", "with_filter", "with_projection", "with_key_condition",
     "with_update"}

C8_Step ==
    (last_call'.op \in WithCalls /\ pc = "building" /\ pc' = "building") =>
        LET X == KindOfCall(last_call'.op)
        IN /\ DOMAIN expressions' = DOMAIN expressions \cup {X}
           /\ expressions'[X].b = last_call'.arg
           /\ \A k \in DOMAIN expressions \ {X} : expressions'[k] = expressions[k]

C8_WithFrame == [][C8_Step]_vars

\* with_filter was called last on a Builder that holds all five kinds, with a
\* Condition that differs from the Filter
C8_Witness ==
    /\ pc = "building"
    /\ last_call.op = "with_filter"
    /\ DOMAIN expressions = ExpressionTypes
    /\ expressions["Condition"].b # expressions["Filter"].b

(***************************************************************************)
(* C9: if build_tree() or rendering fails for a kind that is present,      *)
(* build() returns an error and no Expression, and the error is the        *)
(* unmodified error of the first kind that fails in the build's kind       *)
(* order, whatever other kinds would also have failed.                     *)
(***************************************************************************)
\* what building and rendering one kind on its own gives
Alone(kind) ==
    LET node == build_tree(expressions[kind])
    IN IF ~node.ok THEN node
       ELSE LET r == build_expression_string(node.val, AliasList_default)
            IN IF r.ok THEN Ok(r.str) ELSE Err(r.err)

Failing == {i \in 1..Len(KindOrder) :
               KindOrder[i] \in DOMAIN expressions /\ ~Alone(KindOrder[i]).ok}

C9_FirstError ==
    Built =>
      /\ Failing # {} =>
           LET first == CHOOSE i \in Failing : \A j \in Failing : i <= j
           IN /\ ~result.ok
              /\ result = Err(Alone(KindOrder[first]).err)
              /\ DOMAIN result = {"ok", "err"}
      /\ Failing = {} => result.ok

\* several kinds fail, each with an error of its own, one of them at rendering
C9_Witness ==
    /\ Built
    /\ Cardinality(Failing) >= 3
    /\ \E i, j \in Failing : Alone(KindOrder[i]).err # Alone(KindOrder[j]).err
    /\ \E i \in Failing :
          /\ build_tree(expressions[KindOrder[i]]).ok
          /\ \A j \in Failing : i <= j

(***************************************************************************)
(* C10: key_and(left, right) gives an Invalid builder exactly when left's  *)
(* mode is not Equal or right's mode is And, and otherwise an And builder  *)
(* with the children [left, right]; build_tree on an Invalid builder fails *)
(* with the plain error "... invalid key condition constructed".           *)
(***************************************************************************)
C10_KeyAnd ==
    kc_depth > 0 =>
      /\ kc.mode = "Invalid" <=> (kc_left.mode # "Equal" \/ kc_right.mode = "And")
      /\ kc.mode # "Invalid" =>
           /\ kc.mode = "And"
           /\ kc.key_condition_list = <<kc_left, kc_right>>
           /\ kc.operand_list = <<>>
      /\ kc.mode = "Invalid" =>
           key_condition_build_tree(kc) =
              Err([kind |-> "anyhow",
                   msg |-> "buildKeyCondition error: invalid key condition constructed",
                   arg |-> ""])

\* key(a).equal(v).and(key(b).equal(w).and(...)): Invalid because the right
\* operand is an And
C10_Witness ==
    /\ kc_depth = 2
    /\ kc.mode = "Invalid"
    /\ kc_left.mode = "Equal"
    /\ kc_right.mode = "And"

\* key(a).less_than(v).and(...): Invalid because the left operand is not Equal
C10_WitnessLeft ==
    /\ kc_depth = 1
    /\ kc.mode = "Invalid"
    /\ kc_left.mode = "LessThan"

(***************************************************************************)
(* C11: the Invalid marker is sticky.  Every and() call returns a          *)
(* KeyConditionBuilder (none fails at combination time), and a builder     *)
(* that is Invalid or holds an Invalid builder below it fails              *)
(* build_tree(); an and() call with such a builder as its left or its      *)
(* right operand gives such a builder again.                               *)
(***************************************************************************)
\* b is Invalid or was combined from an Invalid builder
RECURSIVE Poisoned(_)
Poisoned(b) ==
    \/ b.mode = "Invalid"
    \/ \E i \in 1..Len(b.key_condition_list) : Poisoned(b.key_condition_list[i])

IsKeyConditionBuilder(b) ==
    /\ DOMAIN b = {"operand_list", "key_condition_list", "mode"}
    /\ b.mode \in KeyCompareModes \cup {"Unset", "Invalid", "And", "Between", "BeginsWith"}

C11_Step ==
    (kc_depth' = kc_depth + 1) =>
        /\ IsKeyConditionBuilder(kc')
        /\ (Poisoned(kc_left') \/ Poisoned(kc_right')) =>
              /\ Poisoned(kc')
              /\ ~key_condition_build_tree(kc').ok

C11_InvalidSticky ==
    /\ [](Poisoned(kc) => ~key_condition_build_tree(kc).ok)
    /\ [][C11_Step]_vars

\* an Invalid builder was the right operand of an Equal builder, which gives an
\* And builder holding it, and that And builder was combined once more
C11_Witness ==
    /\ kc_depth = 3
    /\ kc_right.mode = "And"
    /\ Poisoned(kc_right)
    /\ kc_left.mode = "Equal"
    /\ kc.mode = "Invalid"

\* an Invalid builder under an And builder: it is not Invalid itself and fails
C11_WitnessRight ==
    /\ kc_depth = 2
    /\ kc.mode = "And"
    /\ kc_right.mode = "Invalid"
    /\ ~key_condition_build_tree(kc).ok

(***************************************************************************)
(* C12: build_tree() on a default-constructed ConditionBuilder,            *)
(* KeyConditionBuilder, ProjectionBuilder or UpdateBuilder fails with      *)
(* UnsetParameterError("buildTree", <the name of the builder type>), and   *)
(* build() of a Builder holding only that builder returns this error.      *)
(***************************************************************************)
DefaultOf(ty) ==
    CASE ty = "ConditionBuilder" -> ConditionBuilder_default
      [] ty = "KeyConditionBuilder" -> KeyConditionBuilder_default
      [] ty = "ProjectionBuilder" -> ProjectionBuilder_default
      [] ty = "UpdateBuilder" -> UpdateBuilder_default

IsDefault(tb) == tb.b = DefaultOf(tb.ty)

C12_DefaultUnset ==
    \A k \in DOMAIN expressions :
        IsDefault(expressions[k]) =>
            /\ build_tree(expressions[k]) =
                  Err([kind |-> "UnsetParameterError", function_name |-> "buildTree",
                       parameter_type |-> expressions[k].ty])
            /\ (Built /\ DOMAIN expressions = {k}) =>
                  result = Err([kind |-> "UnsetParameterError",
                                function_name |-> "buildTree",
                                parameter_type |-> expressions[k].ty])

\* a Builder holding a default-constructed builder of each of the four types
\* was built
C12_Witness ==
    /\ Built
    /\ ~result.ok
    /\ DOMAIN expressions = ExpressionTypes
    /\ \A k \in DOMAIN expressions : IsDefault(expressions[k])
    /\ {expressions[k].ty : k \in DOMAIN expressions} =
          {"ConditionBuilder", "KeyConditionBuilder", "ProjectionBuilder",
           "UpdateBuilder"}

\* a default-constructed UpdateBuilder alone was built
C12_WitnessBuilt ==
    /\ Built
    /\ DOMAIN expressions = {"Update"}
    /\ IsDefault(expressions["Update"])
    /\ ~result.ok

(***************************************************************************)
(* C13: NameBuilder.build_operand() fails with                             *)
(* UnsetParameterError("BuildOperand", "NameBuilder") when the name is     *)
(* empty, when a dot-separated segment is empty (leading, trailing or      *)
(* doubled dot) or when a segment has nothing before its bracketed suffix, *)
(* and succeeds for every other name.                                      *)
(***************************************************************************)
\* a name operand was made and build_operand() has returned
BuiltName == builder.ty = "Operand" /\ builder.b.ob = "Name" /\ tree # NoResult

\* the segment that starts at position i (after a dot or at the start)
SegmentEnd(nm, i) ==
    LET dots == {j \in i..Len(nm) : nm[j] = "."}
    IN IF dots = {} THEN Len(nm) ELSE (CHOOSE j \in dots : \A k \in dots : j <= k) - 1

SegmentStarts(nm) == {1} \cup {j + 1 : j \in {k \in 1..Len(nm) : nm[k] = "."}}

\* empty name, empty segment, or a segment that is only a bracketed suffix
Malformed(nm) ==
    \/ Len(nm) = 0
    \/ \E i \in SegmentStarts(nm) :
          LET e == SegmentEnd(nm, i)
          IN \/ e < i
             \/ nm[e] = "]" /\ nm[i] = "["

C13_NameErrors ==
    BuiltName =>
        /\ Malformed(builder.b.name) =>
              tree = Err([kind |-> "UnsetParameterError",
                          function_name |-> "BuildOperand",
                          parameter_type |-> "NameBuilder"])
        /\ ~Malformed(builder.b.name) => tree.ok

\* the same for the names made of one-byte characters only
C13_AsciiNameErrors ==
    (BuiltName /\ \A i \in 1..Len(builder.b.name) : builder.b.name[i] \notin WideChars) =>
        /\ Malformed(builder.b.name) =>
              tree = Err([kind |-> "UnsetParameterError",
                          function_name |-> "BuildOperand",
                          parameter_type |-> "NameBuilder"])
        /\ ~Malformed(builder.b.name) => tree.ok

\* name("f..f"), name("[f]") or name("") was built
C13_Witness ==
    /\ BuiltName
    /\ builder.b.name \in {<<"f", ".", ".", "f">>, <<"[", "f", "]">>, <<>>}
    /\ ~tree.ok

(***************************************************************************)
(* C14: a name that is non-empty but malformed, such as name("foo..bar"),  *)
(* makes build_operand() fail with InvalidParameterError and not with      *)
(* UnsetParameterError.                                                    *)
(***************************************************************************)
C14_InvalidName ==
    (BuiltName /\ Len(builder.b.name) > 0 /\ Malformed(builder.b.name)
       /\ \A i \in 1..Len(builder.b.name) : builder.b.name[i] \notin WideChars) =>
        /\ ~tree.ok
        /\ tree.err.kind = "InvalidParameterError"

(***************************************************************************)
(* C15: a value operand built from an empty string list, an empty nested   *)
(* list or an empty map is the NULL attribute value and never an empty SS, *)
(* L or M; a non-empty collection is an SS, L or M with its elements; the  *)
(* operand node always has exactly one values entry and the template "$v". *)
(***************************************************************************)
BuiltValue == builder.ty = "Operand" /\ builder.b.ob = "Value" /\ tree # NoResult

\* the number of entries of a list or of a map given to value()
EntriesOf(vb) ==
    IF vb.ty = "MapValue" THEN Cardinality(DOMAIN vb.value) ELSE Len(vb.value)

\* no empty SS, L or M at any depth of an attribute value
RECURSIVE NoEmptyCollection(_)
NoEmptyCollection(av) ==
    CASE av.t = "Ss" -> Len(av.v) > 0
      [] av.t \in {"L", "M"} ->
            /\ DOMAIN av.v # {}
            /\ \A k \in DOMAIN av.v : NoEmptyCollection(av.v[k])
      [] OTHER -> TRUE

C15_EmptyIsNull ==
    BuiltValue =>
        /\ tree.ok
        /\ tree.val.fmt_expression = <<"$", "v">>
        /\ Len(tree.val.values) = 1
        /\ tree.val.names = <<>> /\ tree.val.children = <<>>
        /\ LET vb == builder.b
               av == tree.val.values[1]
           IN /\ NoEmptyCollection(av)
              /\ vb.ty \in {"VecString", "VecValue", "MapValue"} =>
                    IF EntriesOf(vb) = 0
                    THEN av = [t |-> "Null", v |-> TRUE]
                    ELSE /\ av.t = (CASE vb.ty = "VecString" -> "Ss"
                                      [] vb.ty = "VecValue" -> "L"
                                      [] vb.ty = "MapValue" -> "M")
                         /\ DOMAIN av.v = DOMAIN vb.value
                         /\ vb.ty = "VecString" => av.v = vb.value
              /\ vb = value("VecValue", <<five, value("VecString", <<>>)>>) =>
                    av = [t |-> "L",
                          v |-> <<[t |-> "N", v |-> <<"5">>],
                                  [t |-> "Null", v |-> TRUE]>>]
        /\ rendered # NoResult => (rendered.ok /\ rendered.str = <<":", "0">>)

\* an empty collection was built and rendered
C15_Witness ==
    /\ BuiltValue
    /\ builder.b.ty \in {"VecString", "VecValue", "MapValue"}
    /\ EntriesOf(builder.b) = 0
    /\ rendered # NoResult

\* a list holding an empty list and an empty map was built
C15_WitnessNested ==
    /\ BuiltValue
    /\ builder.b.ty = "VecValue"
    /\ EntriesOf(builder.b) = 2
    /\ builder.b.value[1].ty = "VecValue"
    /\ tree.val.values[1].v[1] = [t |-> "Null", v |-> TRUE]
    /\ tree.val.values[1].v[2] = [t |-> "Null", v |-> TRUE]

(***************************************************************************)
(* C16: the rendered update has one line "<KEYWORD> ...\n" per mode that   *)
(* has an operation, in the order SET, REMOVE, ADD, DELETE whatever the    *)
(* order of the calls; the operations of a line appear in call order,      *)
(* separated by ", "; aliases are numbered in that mode order.             *)
(***************************************************************************)
\* the calls of one mode, in call order
CallsOf(mode) == SelectSeq(calls, LAMBDA c : c.mode = mode)

\* the calls in the order the claim gives to the rendered operations
CallsInModeOrder ==
    CallsOf("Set") \o CallsOf("Remove") \o CallsOf("Add") \o CallsOf("Delete")

\* the name and value operands of a list of calls, in reading order
RECURSIVE CallTokens(_)
CallTokens(cs) ==
    IF cs = <<>> THEN <<>>
    ELSE LET c == Head(cs)
         IN <<[k |-> "n", s |-> c.name]>>
            \o (IF ~c.operand.some THEN <<>>
                ELSE IF c.operand.v.ob = "Name"
                THEN <<[k |-> "n", s |-> c.operand.v.name]>>
                ELSE <<[k |-> "v", s |-> <<>>]>>)
            \o CallTokens(Tail(cs))

\* the names of a token list, each once, in the order of first appearance
RECURSIVE FirstNames(_, _)
FirstNames(toks, seen) ==
    IF toks = <<>> THEN seen
    ELSE FirstNames(Tail(toks),
                    IF Head(toks).k = "n" /\ \A i \in 1..Len(seen) : seen[i] # Head(toks).s
                    THEN Append(seen, Head(toks).s) ELSE seen)

\* the alias the p-th token gets when aliases are numbered in reading order
TokenAlias(toks, p) ==
    LET digits == <<"0", "1", "2", "3", "4", "5", "6", "7", "8", "9">>
    IN IF toks[p].k = "n"
       THEN LET firsts == FirstNames(toks, <<>>)
            IN <<"#", digits[CHOOSE i \in 1..Len(firsts) : firsts[i] = toks[p].s]>>
       ELSE <<":", digits[1 + Cardinality({q \in 1..(p - 1) : toks[q].k = "v"})]>>

\* the operations cs of one line, the first of them starting at token p
RECURSIVE LineText(_, _, _)
LineText(cs, toks, p) ==
    IF cs = <<>> THEN <<>>
    ELSE LET c == Head(cs)
         IN TokenAlias(toks, p)
            \o (CASE c.mode = "Set" -> <<" ", "=", " ">> \o TokenAlias(toks, p + 1)
                  [] c.mode = "Remove" -> <<>>
                  [] OTHER -> <<" ">> \o TokenAlias(toks, p + 1))
            \o (IF Len(cs) > 1 THEN <<",", " ">> ELSE <<>>)
            \o LineText(Tail(cs), toks, p + Len(CallTokens(<<c>>)))

ExpectedUpdate ==
    LET toks == CallTokens(CallsInModeOrder)
        line(keyword, cs, before) ==
            IF cs = <<>> THEN <<>>
            ELSE keyword \o <<" ">> \o LineText(cs, toks, 1 + Len(CallTokens(before)))
                 \o <<"\n">>
    IN line(<<"S", "E", "T">>, CallsOf("Set"), <<>>)
       \o line(<<"R", "E", "M", "O", "V", "E">>, CallsOf("Remove"), CallsOf("Set"))
       \o line(<<"A", "D", "D">>, CallsOf("Add"), CallsOf("Set") \o CallsOf("Remove"))
       \o line(<<"D", "E", "L", "E", "T", "E">>, CallsOf("Delete"),
               CallsOf("Set") \o CallsOf("Remove") \o CallsOf("Add"))

C17_Deterministic ==
    /\ Built => result = build(expressions)
    /\ (builder.ty = "UpdateBuilder" /\ tree # NoResult) =>
          /\ tree = build_tree(builder)
          /\ rendered # NoResult =>
                rendered = build_expression_string(tree.val, AliasList_default)

\* a Builder with three kinds or more was built into an Expression with names
\* and values, and its HashMap iterates backwards now
C17_Witness ==
    /\ Built
    /\ result.ok
    /\ Cardinality(DOMAIN expressions) >= 3
    /\ result.val.names.some
    /\ result.val.values.some
    /\ random_state = 1

\* an UpdateBuilder with three modes or more was built and rendered, and its
\* HashMap iterates backwards now
C17_WitnessUpdate ==
    /\ builder.ty = "UpdateBuilder"
    /\ rendered.ok
    /\ Cardinality(DOMAIN builder.b.operations) >= 3
    /\ random_state = 1

(***************************************************************************)
(* C18: every build_operand(), build_tree() and build() call on builders   *)
(* assembled through the public constructor functions returns a node, an   *)
(* Expression or an error value, for every argument the constructors       *)
(* accept (an In condition with an empty candidate list and names of any   *)
(* content included); no call aborts the program.                          *)
(***************************************************************************)
Aborted(r) == ~r.ok /\ r.err.kind = "panic"

C18_NoAbort ==
    /\ ~Aborted(tree)
    /\ ~Aborted(result)

\* the same without the In conditions that have no candidate and without the
\* names that hold a character of more than one byte
C18_NoAbortElsewhere ==
    Aborted(tree) =>
        \/ /\ builder.ty = "ConditionBuilder"
           /\ builder.b.mode = "In"
           /\ Len(builder.b.operand_list) = 1
        \/ /\ builder.ty = "Operand"
           /\ builder.b.ob = "Name"
           /\ \E i \in 1..Len(builder.b.name) : builder.b.name[i] \in WideChars

\* name("foo").r#in(vec![]) was built
C18_WitnessIn ==
    /\ builder = Box("ConditionBuilder", in(name(foo), <<>>))
    /\ Aborted(tree)

(***************************************************************************)
(* C19: escape-substitution errors never result from caller input.  In     *)
(* every node of a tree that build_tree() / build_operand() returned, the  *)
(* numbers of $n, $v and $c markers of the template equal the lengths of   *)
(* names, values and children, the template holds no other '$', and        *)
(* rendering the tree succeeds.                                            *)
(***************************************************************************)
\* the positions of the template where '$' is followed by rune
Markers(template, rune) ==
    {i \in 1..(Len(template) - 1) : template[i] = "$" /\ template[i + 1] = rune}

RECURSIVE WellFormedNode(_)
WellFormedNode(node) ==
    /\ Cardinality(Markers(node.fmt_expression, "n")) = Len(node.names)
    /\ Cardinality(Markers(node.fmt_expression, "v")) = Len(node.values)
    /\ Cardinality(Markers(node.fmt_expression, "c")) = Len(node.children)
    /\ \A i \in 1..Len(node.fmt_expression) :
          node.fmt_expression[i] = "$" =>
              i \in Markers(node.fmt_expression, "n")
                    \cup Markers(node.fmt_expression, "v")
                    \cup Markers(node.fmt_expression, "c")
    /\ \A i \in 1..Len(node.children) : WellFormedNode(node.children[i])

C19_NoEscapeErrors ==
    (tree.ok /\ builder.ty # "ExpressionNode") =>
        /\ WellFormedNode(tree.val)
        /\ rendered # NoResult => rendered.ok

\* the same for the builders whose names hold no '$'
C19_NoEscapeErrorsWithoutDollar ==
    (tree.ok /\ builder.ty # "ExpressionNode"
       /\ ~(builder.ty = "Operand" /\ builder.b.ob = "Name"
            /\ \E i \in 1..Len(builder.b.name) : builder.b.name[i] = "$")) =>
        /\ WellFormedNode(tree.val)
        /\ rendered # NoResult => rendered.ok

\* name("f[$]") was built into a node and rendering it failed
C19_WitnessRune ==
    /\ builder = Box("Operand", name(<<"f", "[", "$", "]">>))
    /\ tree.ok
    /\ tree.val.fmt_expression = <<"$", "n", "[", "$", "]">>
    /\ rendered # NoResult
    /\ ~rendered.ok
    /\ rendered.err.kind = "anyhow"

(***************************************************************************)
(* C20: build_expression_string scans the template of a node from left to  *)
(* right and replaces the i-th $n by the alias of names[i], the i-th $v by *)
(* the alias of values[i] and the i-th $c by the full rendering of         *)
(* children[i]; the three counters are independent and start at 0 for      *)
(* every node; all other text is copied unchanged and substituted text is  *)
(* not scanned again, e.g. names [foo, bar, baz] with "$n.$n[0].$n" gives  *)
(* "#0.#1[0].#2".                                                          *)
(***************************************************************************)
\* the alias that alias_path / alias_value returned, and the list behind it
AliasOf(r) == [str |-> r.alias, al |-> r.al]

RECURSIVE Substituted(_, _, _, _, _, _, _)
RECURSIVE AfterMarker(_, _, _, _, _, _, _)

\* the text the claim gives for the template of node from position pos on,
\* appended to out: n, v and c are the numbers of $n, $v and $c met so far
Substituted(node, pos, n, v, c, al, out) ==
    IF pos > Len(node.fmt_expression) THEN [str |-> out, al |-> al]
    ELSE IF node.fmt_expression[pos] # "$"
    THEN Substituted(node, pos + 1, n, v, c, al, Append(out, node.fmt_expression[pos]))
    ELSE
      CASE node.fmt_expression[pos + 1] = "n" ->
             AfterMarker(node, pos, n + 1, v, c, out,
                         AliasOf(alias_path(al, node.names[n + 1])))
        [] node.fmt_expression[pos + 1] = "v" ->
             AfterMarker(node, pos, n, v + 1, c, out,
                         AliasOf(alias_value(al, node.values[v + 1])))
        [] node.fmt_expression[pos + 1] = "c" ->
             AfterMarker(node, pos, n, v, c + 1, out,
                         Substituted(node.children[c + 1], 1, 0, 0, 0, al, <<>>))

\* the scan goes on behind the marker with the text and the alias list of sub
AfterMarker(node, pos, n, v, c, out, sub) ==
    Substituted(node, pos + 2, n, v, c, sub.al, out \o sub.str)

C20_Substitution ==
    (tree.ok /\ WellFormedNode(tree.val) /\ rendered # NoResult) =>
        /\ rendered.ok
        /\ LET expected == Substituted(tree.val, 1, 0, 0, 0, AliasList_default, <<>>)
           IN /\ rendered.str = expected.str
              /\ rendered.al = expected.al
        /\ \A i \in 1..Len(rendered.str) : rendered.str[i] # "$"

\* the node of nested_path_with_index was rendered
C20_Witness ==
    /\ builder.ty = "ExpressionNode"
    /\ tree.val.names = <<foo, bar, baz>>
    /\ rendered.ok
    /\ rendered.str = <<"#", "0", ".", "#", "1", "[", "0", "]", ".", "#", "2">>

\* a node whose template mixes $n, $v and $c, over children with names and
\* values of their own, was rendered
C20_WitnessMixed ==
    /\ builder.ty = "ExpressionNode"
    /\ Len(tree.val.names) = 2
    /\ Len(tree.val.values) = 2
    /\ Len(tree.val.children) = 2
    /\ rendered.ok
    /\ rendered.str = <<":", "0", " ", "#", "0", "v", ":", "1", "c", "#", "1", "#", "1", "n", "#", "2", " ", "#", "2", ":", "2">>

(***************************************************************************)
(* C21: rendering a node fails with "buildexprNode error: invalid escape   *)
(* character" when '$' is the last character of its template and with      *)
(* "buildexprNode error: invalid escape rune <X>" when '$' is followed by  *)
(* a character X other than n, v or c; this holds at any depth of the      *)
(* tree, and the error reaches the caller of the top-level render          *)
(* unchanged.                                                              *)
(***************************************************************************)
Failure(msg, arg) == [ok |-> FALSE, err |-> [kind |-> "anyhow", msg |-> msg, arg |-> arg]]

\* an alias as the text put in place of a marker
Alias(r) == [ok |-> TRUE, str |-> r.alias, al |-> r.al]

RECURSIVE Scanned(_, _, _, _, _, _, _)
RECURSIVE Resumed(_, _, _, _, _, _, _)

\* what the claims C21, C22 and C30 give for the template of node read from
\* position pos on: the text and the alias list, or the first failure met;
\* n, v and c are the numbers of $n, $v and $c read so far
Scanned(node, pos, n, v, c, al, out) ==
    IF pos > Len(node.fmt_expression) THEN [ok |-> TRUE, str |-> out, al |-> al]
    ELSE IF node.fmt_expression[pos] # "$"
    THEN Scanned(node, pos + 1, n, v, c, al, Append(out, node.fmt_expression[pos]))
    ELSE IF pos = Len(node.fmt_expression)
    THEN Failure("buildexprNode error: invalid escape character", "")
    ELSE
      CASE node.fmt_expression[pos + 1] = "n" ->
             IF n >= Len(node.names)
             THEN Failure("substitutePath error: exprNode []names out of range", "")
             ELSE Resumed(node, pos, n + 1, v, c, out,
                          Alias(alias_path(al, node.names[n + 1])))
        [] node.fmt_expression[pos + 1] = "v" ->
             IF v >= Len(node.values)
             THEN Failure("substituteValue error: exprNode []values out of range", "")
             ELSE Resumed(node, pos, n, v + 1, c, out,
                          Alias(alias_value(al, node.values[v + 1])))
        [] node.fmt_expression[pos + 1] = "c" ->
             IF c >= Len(node.children)
             THEN Failure("substituteChild error: exprNode []children out of range", "")
             ELSE Resumed(node, pos, n, v, c + 1, out,
                          Scanned(node.children[c + 1], 1, 0, 0, 0, al, <<>>))
        [] OTHER ->
             Failure("buildexprNode error: invalid escape rune ",
                     node.fmt_expression[pos + 1])

\* the scan goes on behind the marker, or ends with the failure of sub
Resumed(node, pos, n, v, c, out, sub) ==
    IF sub.ok THEN Scanned(node, pos + 2, n, v, c, sub.al, out \o sub.str)
    ELSE sub

\* a node was rendered against a fresh alias list
Rendered == tree.ok /\ rendered # NoResult

EscapeErrors ==
    {"buildexprNode error: invalid escape character",
     "buildexprNode error: invalid escape rune "}

\* '$' is the last character of the template or stands before a character
\* other than n, v and c, and no marker before it lacks its name, value or
\* child
EscapeFailsFirst(node) ==
    \E p \in 1..Len(node.fmt_expression) :
        /\ node.fmt_expression[p] = "$"
        /\ p = Len(node.fmt_expression) \/ node.fmt_expression[p + 1] \notin {"n", "v", "c"}
        /\ Cardinality(Markers(SubSeq(node.fmt_expression, 1, p), "n")) <= Len(node.names)
        /\ Cardinality(Markers(SubSeq(node.fmt_expression, 1, p), "v")) <= Len(node.values)
        /\ Cardinality(Markers(SubSeq(node.fmt_expression, 1, p), "c")) <= Len(node.children)
        /\ \A q \in 1..(p - 1) : node.fmt_expression[q] = "$" =>
              /\ node.fmt_expression[q + 1] \in {"n", "v", "c"}
              /\ node.fmt_expression[q + 1] = "c" =>
                    WellFormedNode(node.children[
                        Cardinality(Markers(SubSeq(node.fmt_expression, 1, q + 1), "c"))])

C21_EscapeErrors ==
    Rendered =>
        /\ LET expected == Scanned(tree.val, 1, 0, 0, 0, AliasList_default, <<>>)
           IN (~expected.ok /\ expected.err.msg \in EscapeErrors) =>
                 /\ ~rendered.ok
                 /\ rendered.err = expected.err
        /\ EscapeFailsFirst(tree.val) =>
              /\ ~rendered.ok
              /\ rendered.err.kind = "anyhow"
              /\ rendered.err.msg \in EscapeErrors
              /\ rendered.err.msg = "buildexprNode error: invalid escape rune " =>
                    \E p \in 1..(Len(tree.val.fmt_expression) - 1) :
                        /\ tree.val.fmt_expression[p] = "$"
                        /\ tree.val.fmt_expression[p + 1] = rendered.err.arg
                        /\ rendered.err.arg \notin {"n", "v", "c"}
              /\ rendered.err.msg = "buildexprNode error: invalid escape character" =>
                    /\ tree.val.fmt_expression[Len(tree.val.fmt_expression)] = "$"
                    /\ rendered.err.arg = ""

\* the node of tests::missing_char was rendered
C21_Witness ==
    /\ Rendered
    /\ tree.val = from_names(<<foo>>, <<"$", "n", ".", "$">>)
    /\ rendered.err = [kind |-> "anyhow",
                       msg |-> "buildexprNode error: invalid escape character",
                       arg |-> ""]

\* "$!" two levels below the rendered node: the error of the grandchild
C21_WitnessDeep ==
    /\ Rendered
    /\ Len(tree.val.children) = 2
    /\ tree.val.fmt_expression = <<"$", "c", "$", "c">>
    /\ rendered.err = [kind |-> "anyhow",
                       msg |-> "buildexprNode error: invalid escape rune ",
                       arg |-> "!"]

(***************************************************************************)
(* C22: rendering a node whose template holds more $n, $v or $c markers    *)
(* than the node has names, values or children fails at the first surplus  *)
(* marker with the matching error ("substitutePath error: exprNode []names *)
(* out of range", "substituteValue error: exprNode []values out of range", *)
(* "substituteChild error: exprNode []children out of range"); names,      *)
(* values and children without a marker are ignored without error.         *)
(***************************************************************************)
RangeError(rune) ==
    CASE rune = "n" -> "substitutePath error: exprNode []names out of range"
      [] rune = "v" -> "substituteValue error: exprNode []values out of range"
      [] rune = "c" -> "substituteChild error: exprNode []children out of range"

\* what the node holds for the markers of a rune
PayloadOf(node, rune) ==
    CASE rune = "n" -> node.names [] rune = "v" -> node.values [] rune = "c" -> node.children

\* the marker at p is the first of the template that lacks its entry, and
\* nothing before it makes the render fail
FirstSurplus(node, p) ==
    /\ p < Len(node.fmt_expression)
    /\ node.fmt_expression[p] = "$"
    /\ node.fmt_expression[p + 1] \in {"n", "v", "c"}
    /\ Cardinality(Markers(SubSeq(node.fmt_expression, 1, p + 1), node.fmt_expression[p + 1]))
          = Len(PayloadOf(node, node.fmt_expression[p + 1])) + 1
    /\ \A rune \in {"n", "v", "c"} \ {node.fmt_expression[p + 1]} :
          Cardinality(Markers(SubSeq(node.fmt_expression, 1, p), rune))
             <= Len(PayloadOf(node, rune))
    /\ \A q \in 1..(p - 1) : node.fmt_expression[q] = "$" =>
          /\ node.fmt_expression[q + 1] \in {"n", "v", "c"}
          /\ node.fmt_expression[q + 1] = "c" =>
                WellFormedNode(node.children[
                    Cardinality(Markers(SubSeq(node.fmt_expression, 1, q + 1), "c"))])

\* every marker of the node has its entry, and so below every child that a
\* marker refers to; entries without a marker may be there
RECURSIVE Supplied(_)
Supplied(node) ==
    /\ \A i \in 1..Len(node.fmt_expression) :
          node.fmt_expression[i] = "$" =>
              /\ i < Len(node.fmt_expression)
              /\ node.fmt_expression[i + 1] \in {"n", "v", "c"}
    /\ \A rune \in {"n", "v", "c"} :
          Cardinality(Markers(node.fmt_expression, rune)) <= Len(PayloadOf(node, rune))
    /\ \A i \in 1..Cardinality(Markers(node.fmt_expression, "c")) :
          Supplied(node.children[i])

C22_RangeErrors ==
    Rendered =>
        /\ \A p \in 1..Len(tree.val.fmt_expression) :
              FirstSurplus(tree.val, p) =>
                  /\ ~rendered.ok
                  /\ rendered.err = [kind |-> "anyhow",
                                     msg |-> RangeError(tree.val.fmt_expression[p + 1]),
                                     arg |-> ""]
        /\ LET expected == Scanned(tree.val, 1, 0, 0, 0, AliasList_default, <<>>)
           IN /\ (~expected.ok /\ expected.err.msg \notin EscapeErrors) =>
                    /\ ~rendered.ok
                    /\ rendered.err = expected.err
              /\ Supplied(tree.val) =>
                    /\ expected.ok
                    /\ rendered.ok
                    /\ rendered.str = expected.str
                    /\ rendered.al = expected.al

\* the node of tests::names_out_of_range was rendered
C22_Witness ==
    /\ Rendered
    /\ tree.val = from_names(<<foo>>, <<"$", "n", ".", "$", "n">>)
    /\ rendered.err = [kind |-> "anyhow",
                       msg |-> "substitutePath error: exprNode []names out of range",
                       arg |-> ""]

\* a node with two names, two values and two children, one of which cannot be
\* rendered, and a template with one marker was rendered
C22_WitnessIgnored ==
    /\ Rendered
    /\ Len(tree.val.names) = 2
    /\ Len(tree.val.children) = 2
    /\ ~WellFormedNode(tree.val.children[2])
    /\ tree.val.fmt_expression = <<"$", "v", "!", "n">>
    /\ rendered.ok
    /\ rendered.str = <<":", "0", "!", "n">>

(***************************************************************************)
(* C30: a string returned by a successful build_expression_string call     *)
(* never contains '$', for any node tree: every '$' of every template is   *)
(* replaced by an alias or by the rendering of a child, none of which      *)
(* holds '$', or makes the render fail; so no marker that was not          *)
(* substituted reaches an Expression returned by build().                  *)
(***************************************************************************)
NoDollar(str) == \A i \in 1..Len(str) : str[i] # "$"

\* the template of the node, or of a node below it, holds a '$'
RECURSIVE HoldsDollar(_)
HoldsDollar(node) ==
    \/ ~NoDollar(node.fmt_expression)
    \/ \E i \in 1..Len(node.children) : HoldsDollar(node.children[i])

C30_NoDollar ==
    /\ (Rendered /\ rendered.ok) =>
          /\ NoDollar(rendered.str)
          /\ \A i \in 1..Len(tree.val.fmt_expression) :
                tree.val.fmt_expression[i] = "$" =>
                    /\ i < Len(tree.val.fmt_expression)
                    /\ tree.val.fmt_expression[i + 1] \in {"n", "v", "c"}
    /\ BuiltOk =>
          \A k \in DOMAIN result.val.expressions : NoDollar(result.val.expressions[k])

\* a node with two children or more, each with a '$' in a template of its
\* own, was rendered into a string
C30_Witness ==
    /\ Rendered
    /\ rendered.ok
    /\ HoldsDollar(tree.val)
    /\ Len(tree.val.children) >= 2
    /\ \A i \in 1..Len(tree.val.children) : HoldsDollar(tree.val.children[i])
    /\ Len(rendered.str) > 0

\* name("$.$") was built and rendered: the '$' of a name does not reach the
\* string
C30_WitnessName ==
    /\ Rendered
    /\ builder = Box("Operand", name(<<"$", ".", "$">>))
    /\ rendered.ok
    /\ rendered.str = <<"#", "0", ".", "#", "0">>

(***************************************************************************)
(* C23: key conditions and conditions of the same mode                     *)
(***************************************************************************)
\* the ConditionBuilder of the same mode on name(k) and the same values
ConditionOf(kcb) ==
    LET k == kcb.operand_list[1].key
    IN CASE kcb.mode \in KeyCompareModes ->
              compare(kcb.mode, name(k), kcb.operand_list[2])
         [] kcb.mode = "Between" ->
              between(name(k), kcb.operand_list[2], kcb.operand_list[3])
         [] kcb.mode = "BeginsWith" ->
              begins_with(name(k), kcb.operand_list[2].value)

\* the template the two builders are to share
TemplateOf(mode) ==
    CASE mode = "Equal" -> <<"$", "c", " ", "=", " ", "$", "c">>
      [] mode = "LessThan" -> <<"$", "c", " ", "<", " ", "$", "c">>
      [] mode = "LessThanEqual" -> <<"$", "c", " ", "<", "=", " ", "$", "c">>
      [] mode = "GreaterThan" -> <<"$", "c", " ", ">", " ", "$", "c">>
      [] mode = "GreaterThanEqual" -> <<"$", "c", " ", ">", "=", " ", "$", "c">>
      [] mode = "Between" -> <<"$", "c", " ", "B", "E", "T", "W", "E", "E", "N", " ", "$", "c", " ", "A", "N", "D", " ", "$", "c">>
      [] mode = "BeginsWith" -> <<"b", "e", "g", "i", "n", "s", "_", "w", "i", "t", "h", " ", "(", "$", "c", ",", " ", "$", "c", ")">>

\* a key condition on key(k), k one plain segment, went through build_tree
KeyConditionBuilt ==
    /\ builder.ty = "KeyConditionBuilder"
    /\ tree # NoResult
    /\ builder.b.operand_list[1].key # <<>>

SameNode ==
    /\ tree.ok
    /\ tree = condition_build_tree(ConditionOf(builder.b))
    /\ tree.val.fmt_expression = TemplateOf(builder.b.mode)
    /\ Len(tree.val.children) = Len(builder.b.operand_list)

\* C23: a key condition of mode Equal, LessThan, LessThanEqual, GreaterThan,
\* GreaterThanEqual, Between or BeginsWith on key(k), k one plain segment
\* without '.' and brackets, builds into the node that the condition of the
\* same mode on name(k) and the same values builds into: the same template
\* and the same children in the same order.
C23_SameNode == KeyConditionBuilt => SameNode

\* the same for the keys of one-byte characters only
C23_SameNodeAscii ==
    (KeyConditionBuilt
     /\ \A i \in DOMAIN builder.b.operand_list[1].key :
           builder.b.operand_list[1].key[i] \notin WideChars)
    => SameNode

\* a Between key condition on a non-empty key of one-byte characters was built
C23_Witness ==
    /\ KeyConditionBuilt
    /\ builder.b.mode = "Between"
    /\ builder.b.operand_list[1].key = <<"f", "$">>
    /\ tree.ok

\* a key condition on a key with a two-byte character was built
C23_WitnessWide ==
    /\ KeyConditionBuilt
    /\ builder.b.operand_list[1].key = <<"U+00E9">>
    /\ tree.ok
    /\ Aborted(condition_build_tree(ConditionOf(builder.b)))

(***************************************************************************)
(* C24: the node of a name                                                 *)
(***************************************************************************)
\* the start of the k-th segment of nm, in path order
SegmentStart(nm, k) ==
    CHOOSE i \in SegmentStarts(nm) :
        Cardinality({j \in SegmentStarts(nm) : j < i}) = k - 1

\* where the bracketed suffix of the segment i..e starts: at its first '[' when
\* the segment ends in ']', behind the segment otherwise
SuffixStart(nm, i, e) ==
    LET opens == {j \in i..e : nm[j] = "["}
    IN IF nm[e] = "]" /\ opens # {}
       THEN CHOOSE j \in opens : \A q \in opens : j <= q
       ELSE e + 1

SegmentName(nm, k) ==
    LET i == SegmentStart(nm, k)
    IN SubSeq(nm, i, SuffixStart(nm, i, SegmentEnd(nm, i)) - 1)

SegmentSuffix(nm, k) ==
    LET i == SegmentStart(nm, k)
        e == SegmentEnd(nm, i)
    IN SubSeq(nm, SuffixStart(nm, i, e), e)

\* the fragments "$n<suffix>" of the segments k.. of nm, joined by '.'
RECURSIVE Fragments(_, _)
Fragments(nm, k) ==
    IF k > Cardinality(SegmentStarts(nm)) THEN <<>>
    ELSE (IF k > 1 THEN <<".">> ELSE <<>>)
         \o <<"$", "n">> \o SegmentSuffix(nm, k) \o Fragments(nm, k + 1)

\* C24: the node that build_operand() returns for a name of k dot-separated
\* segments holds k names, segment by segment in path order and each without
\* its bracketed suffix, no values and no children, under the template of
\* the k fragments "$n<suffix>" joined by '.'; names that are equal get one
\* alias when the node is rendered.
C24_NameNode ==
    (BuiltName /\ tree.ok) =>
        LET nm == builder.b.name
            k == Cardinality(SegmentStarts(nm))
        IN /\ Len(tree.val.names) = k
           /\ \A j \in 1..k : tree.val.names[j] = SegmentName(nm, j)
           /\ tree.val.fmt_expression = Fragments(nm, 1)
           /\ tree.val.values = <<>>
           /\ tree.val.children = <<>>
           /\ (rendered # NoResult /\ rendered.ok) =>
                 Len(rendered.al.names) =
                     Cardinality({tree.val.names[j] : j \in 1..k})

\* name("foo.bar[0].baz") was built and rendered
C24_Witness ==
    /\ BuiltName
    /\ builder.b.name = <<"f", "o", "o", ".", "b", "a", "r", "[", "0", "]", ".", "b", "a", "z">>
    /\ tree.ok
    /\ tree.val.names = <<foo, bar, baz>>
    /\ tree.val.fmt_expression = <<"$", "n", ".", "$", "n", "[", "0", "]", ".", "$", "n">>
    /\ rendered # NoResult
    /\ rendered.ok
    /\ rendered.str = <<"#", "0", ".", "#", "1", "[", "0", "]", ".", "#", "2">>

\* name("foo.foo") was built and rendered: two names, one alias
C24_WitnessShared ==
    /\ BuiltName
    /\ builder.b.name = <<"f", "o", "o", ".", "f", "o", "o">>
    /\ tree.ok
    /\ tree.val.names = <<foo, foo>>
    /\ rendered # NoResult
    /\ rendered.ok
    /\ rendered.str = <<"#", "0", ".", "#", "0">>
    /\ rendered.al.names = <<foo>>

(***************************************************************************)
(* C25: the node of an In condition                                        *)
(***************************************************************************)
\* an In condition on valid operands went through build_tree
InBuilt ==
    /\ builder.ty = "ConditionBuilder"
    /\ builder.b.mode = "In"
    /\ \A i \in DOMAIN builder.b.operand_list :
          build_operand(builder.b.operand_list[i]).ok
    /\ tree # NoResult

\* "$c, $c, .., $c" with n markers
RECURSIVE CandidateMarkers(_)
CandidateMarkers(n) ==
    IF n <= 0 THEN <<>>
    ELSE IF n = 1 THEN <<"$", "c">>
    ELSE <<"$", "c", ",", " ">> \o CandidateMarkers(n - 1)

\* the number of "$c" in a template
CountMarkers(fmt_expression) ==
    Cardinality({i \in 1..(Len(fmt_expression) - 1) :
                    fmt_expression[i] = "$" /\ fmt_expression[i + 1] = "c"})

InNode ==
    LET operand_list == builder.b.operand_list
    IN /\ tree.ok
       /\ tree.val.names = <<>>
       /\ tree.val.values = <<>>
       /\ Len(tree.val.children) = Len(operand_list)
       /\ \A i \in 1..Len(operand_list) :
             build_operand(operand_list[i]) =
                 Ok(Operand_new(tree.val.children[i]))
       /\ tree.val.fmt_expression =
             <<"$", "c", " ", "I", "N", " ", "(">> \o CandidateMarkers(Len(operand_list) - 1) \o <<")">>
       /\ CountMarkers(tree.val.fmt_expression) = Len(tree.val.children)

\* C25: the node of r#in(subject, candidates) holds the subject and then the
\* candidates in the given order as its children, under the template
\* "$c IN ($c, .., $c)" with one "$c" per candidate between the parentheses,
\* so that it holds as many "$c" as children, for every number of candidates.
C25_InNode == InBuilt => InNode

\* the same for one candidate or more
C25_InNodeWithCandidates ==
    (InBuilt /\ Len(builder.b.operand_list) >= 2) => InNode

\* an In condition with two candidates was built and rendered
C25_Witness ==
    /\ InBuilt
    /\ Len(builder.b.operand_list) = 3
    /\ tree.ok
    /\ tree.val.fmt_expression = <<"$", "c", " ", "I", "N", " ", "(", "$", "c", ",", " ", "$", "c", ")">>
    /\ rendered # NoResult
    /\ rendered.ok

\* an In condition without a candidate went through build_tree
C25_WitnessNone ==
    /\ InBuilt
    /\ Len(builder.b.operand_list) = 1
    /\ Aborted(tree)

(***************************************************************************)
(* C26: and, or, not                                                       *)
(***************************************************************************)
\* a builder was returned by and, or or not
CompoundMade == builder.ty = "ConditionBuilder" /\ calls # <<>>

\* the template of the call
CompoundTemplate(mode) ==
    CASE mode = "And" -> <<"(", "$", "c", ")", " ", "A", "N", "D", " ", "(", "$", "c", ")">>
      [] mode = "Or" -> <<"(", "$", "c", ")", " ", "O", "R", " ", "(", "$", "c", ")">>
      [] mode = "Not" -> <<"N", "O", "T", " ", "(", "$", "c", ")">>

\* the arguments of the call that fail to build
FailingArgs(args) == {i \in DOMAIN args : ~condition_build_tree(args[i]).ok}

\* the rendered children of a node put into the template of the call
RECURSIVE Wrapped(_, _, _, _)
Wrapped(mode, children, i, al) ==
    LET r == build_expression_string(children[i], al)
    IN IF i = Len(children)
       THEN (IF mode = "Not" /\ i = 1 THEN <<"N", "O", "T", " ", "(">> ELSE <<"(">>) \o r.str \o <<")">>
       ELSE <<"(">> \o r.str \o <<")">>
            \o (IF mode = "And" THEN <<" ", "A", "N", "D", " ">> ELSE <<" ", "O", "R", " ">>)
            \o Wrapped(mode, children, i + 1, r.al)

\* C26: and(l, r), or(l, r) and not(c) return a builder that holds the given
\* conditions in the given order and no operand, whatever the conditions
\* are; build_tree() on it fails exactly when one of the given conditions
\* fails to build, with the error of the first that does, and otherwise
\* returns the nodes of the given conditions as children under
\* "($c) AND ($c)", "($c) OR ($c)" or "NOT ($c)", so that a condition that
\* is itself an And, Or or Not stays one child and is rendered inside the
\* parentheses of its place.
C26_Combinators ==
    CompoundMade =>
        LET call == calls[1]
            failing == FailingArgs(call.args)
        IN /\ builder.b.condition_list = call.args
           /\ builder.b.operand_list = <<>>
           /\ builder.b.mode = call.mode
           /\ (tree # NoResult /\ failing = {}) =>
                 /\ tree.ok
                 /\ tree.val.fmt_expression = CompoundTemplate(call.mode)
                 /\ tree.val.names = <<>>
                 /\ tree.val.values = <<>>
                 /\ Len(tree.val.children) = Len(call.args)
                 /\ \A i \in DOMAIN call.args :
                       Ok(tree.val.children[i]) = condition_build_tree(call.args[i])
                 /\ (rendered # NoResult /\ rendered.ok) =>
                       rendered.str =
                           Wrapped(call.mode, tree.val.children, 1, AliasList_default)
           /\ (tree # NoResult /\ failing # {}) =>
                 tree = condition_build_tree(
                            call.args[CHOOSE i \in failing : \A j \in failing : i <= j])

\* a.and(b).and(c) was built and rendered
C26_Witness ==
    /\ CompoundMade
    /\ calls[1].mode = "And"
    /\ calls[1].args[1].mode = "And"
    /\ tree.ok
    /\ Len(tree.val.children) = 2
    /\ rendered # NoResult
    /\ rendered.ok
    /\ rendered.str = <<"(", "(", "#", "0", " ", "=", " ", ":", "0", ")", " ", "A", "N", "D", " ", "(", "#", "1", " ", "<", " ", ":", "1", ")", ")", " ", "A", "N", "D", " ", "(", "#", "0", " ", "=", " ", ":", "2", ")">>

\* a default ConditionBuilder was given to and: the builder was returned, and
\* build_tree() on it has failed
C26_WitnessInvalid ==
    /\ CompoundMade
    /\ calls[1].mode = "And"
    /\ calls[1].args[2] = ConditionBuilder_default
    /\ tree = Err(UnsetParameterError("buildTree", "ConditionBuilder"))

(***************************************************************************)
(* C27: the node of one update operation                                   *)
(***************************************************************************)
\* an OperationBuilder went through build_operation
OperationBuilt == builder.ty = "OperationBuilder" /\ tree # NoResult

\* the template of the mode
OperationTemplate(mode) ==
    CASE mode = "Set" -> <<"$", "c", " ", "=", " ", "$", "c">>
      [] mode = "Remove" -> <<"$", "c">>
      [] mode \in {"Add", "Delete"} -> <<"$", "c", " ", "$", "c">>

\* the operands build_operation builds, in the order it builds them
OperandsOf(opb) ==
    <<opb.name>>
    \o (IF opb.mode # "Remove" /\ opb.value.some THEN <<opb.value.v>> ELSE <<>>)

\* C27: build_operation returns a node under "$c = $c" for Set, "$c $c" for
\* Add and Delete and "$c" for Remove, with the node of the name as first
\* child and the node of the stored operand as second child, except for
\* Remove, which keeps the name as only child whatever operand is stored;
\* when the name or the operand fails to build, build_operation fails with
\* the error of the first of them that does.
C27_Operation ==
    OperationBuilt =>
        LET opb == builder.b
            operands == OperandsOf(opb)
            failing == {i \in DOMAIN operands : ~build_operand(operands[i]).ok}
        IN IF failing = {}
           THEN /\ tree.ok
                /\ tree.val.fmt_expression = OperationTemplate(opb.mode)
                /\ tree.val.names = <<>>
                /\ tree.val.values = <<>>
                /\ Len(tree.val.children) = Len(operands)
                /\ \A i \in DOMAIN operands :
                      build_operand(operands[i]) =
                          Ok(Operand_new(tree.val.children[i]))
           ELSE LET first == CHOOSE i \in failing : \A j \in failing : i <= j
                IN /\ ~tree.ok
                   /\ tree.err = build_operand(operands[first]).err

\* a Remove that stores an operand was built and rendered
C27_Witness ==
    /\ OperationBuilt
    /\ builder.b.mode = "Remove"
    /\ builder.b.value = Some(five)
    /\ tree.ok
    /\ Len(tree.val.children) = 1
    /\ rendered # NoResult
    /\ rendered.ok
    /\ rendered.str = <<"#", "0">>

\* a Set with a valid name and a failing operand was built
C27_WitnessOperand ==
    /\ OperationBuilt
    /\ builder.b.mode = "Set"
    /\ builder.b.name = name(<<"b">>)
    /\ builder.b.value = Some(name(<<".">>))
    /\ tree = Err(UnsetParameterError("BuildOperand", "NameBuilder"))

\* a Remove with a valid name and a failing operand stored was built
C27_WitnessIgnored ==
    /\ OperationBuilt
    /\ builder.b.mode = "Remove"
    /\ builder.b.name = name(<<"b">>)
    /\ builder.b.value = Some(name(<<".">>))
    /\ tree.ok

(***************************************************************************)
(* C28: the node of a key                                                  *)
(***************************************************************************)
\* a key operand was made and build_operand() has returned
BuiltKey == builder.ty = "Operand" /\ builder.b.ob = "Key" /\ tree # NoResult

\* equal(key(k), name(k)) was built and rendered
KeyAndNameRendered ==
    /\ builder.ty = "ConditionBuilder"
    /\ builder.b.mode = "Equal"
    /\ Len(builder.b.operand_list) = 2
    /\ builder.b.operand_list[1].ob = "Key"
    /\ builder.b.operand_list[2].ob = "Name"
    /\ builder.b.operand_list[2].name = builder.b.operand_list[1].key
    /\ Rendered

\* C28: build_operand() of a non-empty key returns a node with the whole key
\* string, whatever characters it holds, as its only name under the template
\* "$n", so that the key takes one alias; an empty key fails with
\* UnsetParameterError("BuildOperand", "KeyBuilder"); rendered against one
\* alias list, key(k) and name(k) get the same alias when k is a single
\* segment, and the key gets an alias of its own when name(k) is split.
C28_KeyNode ==
    /\ BuiltKey =>
          IF builder.b.key = <<>>
          THEN tree = Err(UnsetParameterError("BuildOperand", "KeyBuilder"))
          ELSE /\ tree = Ok(ExpressionNode(<<builder.b.key>>, <<>>, <<>>, <<"$", "n">>))
               /\ rendered # NoResult =>
                     /\ rendered.ok
                     /\ rendered.str = <<"#", "0">>
                     /\ rendered.al.names = <<builder.b.key>>
    /\ KeyAndNameRendered =>
          LET k == builder.b.operand_list[1].key
          IN /\ rendered.ok
             /\ rendered.al.names[1] = k
             /\ IF SegmentName(k, 1) = k
                THEN /\ rendered.str = <<"#", "0", " ", "=", " ", "#", "0">>
                     /\ rendered.al.names = <<k>>
                ELSE /\ SubSeq(rendered.str, 1, 7) = <<"#", "0", " ", "=", " ", "#", "1">>
                     /\ rendered.al.names[2] = SegmentName(k, 1)

\* key("f.f") was built and rendered: one name, one alias
C28_Witness ==
    /\ BuiltKey
    /\ builder.b.key = <<"f", ".", "f">>
    /\ tree.ok
    /\ tree.val.names = <<<<"f", ".", "f">>>>
    /\ rendered # NoResult
    /\ rendered.str = <<"#", "0">>

\* key("") went through build_operand
C28_WitnessEmpty == BuiltKey /\ builder.b.key = <<>> /\ ~tree.ok

\* equal(key("f"), name("f")) was rendered: one alias for both
C28_WitnessShared ==
    /\ KeyAndNameRendered
    /\ builder.b.operand_list[1].key = <<"f">>
    /\ rendered.str = <<"#", "0", " ", "=", " ", "#", "0">>

\* equal(key("f.f"), name("f.f")) was rendered: the key apart from the name
C28_WitnessApart ==
    /\ KeyAndNameRendered
    /\ builder.b.operand_list[1].key = <<"f", ".", "f">>
    /\ rendered.str = <<"#", "0", " ", "=", " ", "#", "1", ".", "#", "1">>

\* a key condition on key(k) and a filter on name(k) in one build: one alias
C28_SharedInBuild ==
    (/\ BuiltOk
     /\ "KeyCondition" \in DOMAIN result.val.expressions
     /\ "Filter" \in DOMAIN result.val.expressions
     /\ expressions["KeyCondition"].b = key_compare("Equal", key(foo), five)
     /\ expressions["Filter"].b = compare("Equal", name(foo), five))
    => /\ Tokens(result.val.expressions["KeyCondition"], "#")
             = Tokens(result.val.expressions["Filter"], "#")
       /\ Len(Tokens(result.val.expressions["Filter"], "#")) = 1

(***************************************************************************)
(* C29: the order in which a condition is built                            *)
(***************************************************************************)
\* what the mode of a builder makes of its children
OwnMode(cb) ==
    CASE cb.mode = "Unset" -> Err(UnsetParameterError("buildTree", "ConditionBuilder"))
      [] cb.mode = "In" /\ Len(cb.operand_list) < 2 ->
           Panic("attempt to subtract with overflow")
      [] cb.mode \in {"And", "Or"} /\ Len(cb.condition_list) < 1 ->
           Panic("attempt to subtract with overflow")
      [] OTHER -> Ok(cb.mode)

\* the steps of build_tree in the order of the statement: the steps of each
\* child condition, then each operand, then the builder's own mode
RECURSIVE Steps(_)
RECURSIVE StepsOfList(_, _)
StepsOfList(condition_list, i) ==
    IF i > Len(condition_list) THEN <<>>
    ELSE Steps(condition_list[i]) \o StepsOfList(condition_list, i + 1)

Steps(cb) ==
    StepsOfList(cb.condition_list, 1)
    \o [i \in DOMAIN cb.operand_list |-> build_operand(cb.operand_list[i])]
    \o <<OwnMode(cb)>>

\* a condition went through build_tree
ConditionBuilt == builder.ty = "ConditionBuilder" /\ tree # NoResult

\* C29: build_tree() of a condition builds the child conditions, left to
\* right and each to its full depth, then the operands, left to right, and
\* only then looks at its own mode; it returns the first failure of these
\* steps as it is, and succeeds when none of them fails.
C29_FirstFailure ==
    ConditionBuilt =>
        LET steps == Steps(builder.b)
            failing == {i \in DOMAIN steps : ~steps[i].ok}
        IN IF failing = {} THEN tree.ok
           ELSE tree = steps[CHOOSE i \in failing : \A j \in failing : i <= j]

\* and(and(a, b), c) with b and c invalid in different ways was built: the
\* error is that of b
C29_Witness ==
    /\ ConditionBuilt
    /\ builder.b = and(and(compare("Equal", five, six),
                           compare("Equal", five, key(<<>>))),
                       ConditionBuilder_default)
    /\ tree = Err(UnsetParameterError("BuildOperand", "KeyBuilder"))

\* a builder holding an invalid operand and an invalid condition was built:
\* the error is that of the condition
C29_WitnessCondition ==
    /\ ConditionBuilt
    /\ builder.b = ConditionBuilder(<<key(<<>>)>>,
                                    <<compare("Equal", name(<<>>), five)>>, "Equal")
    /\ tree = Err(UnsetParameterError("BuildOperand", "NameBuilder"))

\* In without candidates on an invalid subject was built: the error is that
\* of the subject
C29_WitnessMode ==
    /\ ConditionBuilt
    /\ builder.b = in(name(<<>>), <<>>)
    /\ tree = Err(UnsetParameterError("BuildOperand", "NameBuilder"))

====
